---- MODULE Spec2Model ----
(***************************************************************************)
(* A model of the synchronisation primitives declared in isc/queue.h,      *)
(* isc/refcount.h and isc/rwlock.h: the two-lock intrusive queue           *)
(* (ISC_QUEUE macros), the reference counter (isc_refcount macros) in its  *)
(* stdatomic and its mutex variant, and the reader-writer lock             *)
(* (isc_rwlock functions, of which the header holds the structure and the  *)
(* prototypes).  Every macro is modelled statement by statement; one       *)
(* action is one statement (or one group of statements on data only the    *)
(* running thread can reach), so that the states in the middle of an       *)
(* operation exist in the model.  Stores become visible in program order.  *)
(***************************************************************************)
EXTENDS Integers, Sequences, FiniteSets

\* ------------------------------------------------------------------ bounds
NThreads == 2
NElts == 3
NPool == 2
MaxOps == 4
MaxInit == 2
MaxCalls == 4
MaxLockOps == 3
MaxQuota == 2
NLockers == 3

\* ------------------------------------------------------- program constants
\* "NULL is end of list", "-1 is not linked" (queue.h:18-19)
NULL == 0
NOTLINKED == -1

Threads == 1 .. NThreads
Elts == 1 .. NElts
NOBODY == 0

VARIABLES
    head, tail,          \* ISC_QUEUE: type *head, *tail
    headlock, taillock,  \* ISC_QUEUE: isc_mutex_t headlock, taillock (owner, or NOBODY)
    prev, next,          \* ISC_QLINK of every element: type *prev, *next
    pc,                  \* the statement each thread is at
    elt,                 \* the macro argument elt (push, unlink) or ret (pop) of each thread
    headlocked,          \* ISC_QUEUE_PUSH: bool headlocked
    fault,               \* "none", or how the process died
    active,              \* the threads that call the queue
    pool,                \* the elements those threads own
    checkinit,           \* whether the build defines ISC_QUEUE_CHECKINIT
    destroyed,           \* whether ISC_QUEUE_DESTROY has completed
    nops,                \* operations begun so far
    logging,             \* whether the history is kept
    hist                 \* the calls and results so far (history variable)

qvars == <<head, tail, headlock, taillock, prev, next, pc, elt, headlocked,
           fault, active, pool, checkinit, destroyed, nops, logging, hist>>

VARIABLES
    refs,                \* isc_refcount_t: refs, one counter for each variant
    mutexLock,           \* isc_refcount_t (mutex variant): isc_mutex_t lock (owner, or NOBODY)
    rpc,                 \* the statement of the isc_refcount macro each thread is at
    rop,                 \* the macro each thread is in
    rres,                \* what the macro in progress has computed: its report, its REQUIRE
    rfault,              \* "none", or the REQUIRE that aborted the process
    rcalls,              \* calls begun so far
    rlast,               \* the last call made on both variants side by side, and the one before
    rlog                 \* for each variant, the changes of refs by concurrent callers, in the order they took effect

rvars == <<refs, mutexLock, rpc, rop, rres, rfault, rcalls, rlast, rlog>>

VARIABLES
    cnt_and_flag,        \* isc_rwlock: the reader count and the writer-active bit
    write_requests,      \* isc_rwlock: tickets handed to writers
    write_completions,   \* isc_rwlock: writers that are done
    write_granted,       \* isc_rwlock: write grants since a reader was last admitted
    readers_waiting,     \* isc_rwlock: readers asleep on readable
    write_quota,         \* isc_rwlock: set by isc_rwlock_init
    lpc,                 \* the step of the isc_rwlock call each thread is at
    ticket,              \* isc_rwlock_lock(write): the ticket of each writer
    prevcnt,             \* the value an atomic instruction returned to each thread
    wakeup_writers,      \* isc_rwlock_unlock(write): whether writers are still to wake
    asleep,              \* the condition each thread sleeps on, or "none"
    held,                \* what each thread holds, as its calls have told it
    lresult,             \* what the last call of each thread returned
    lops                 \* isc_rwlock calls begun so far

lvars == <<cnt_and_flag, write_requests, write_completions, write_granted,
           readers_waiting, write_quota, lpc, ticket, prevcnt, wakeup_writers,
           asleep, held, lresult, lops>>

vars == <<qvars, rvars, lvars>>

\* --------------------------------------------------------------- helpers

\* ISC_QLINK_LINKED(elt, link): (void*)(elt)->link.next != (void*)(-1)
ISC_QLINK_LINKED(e) == next[e] # NOTLINKED

\* ISC_QUEUE_EMPTY(queue): (queue).head == NULL
ISC_QUEUE_EMPTY == head = NULL

\* A pointer that can be dereferenced: NULL and (void *)(-1) cannot.
Valid(p) == p \in Elts

\* The elements met following link.next from p, at most n of them.
RECURSIVE Walk(_, _)
Walk(p, n) == IF n = 0 \/ ~Valid(p) THEN <<>> ELSE <<p>> \o Walk(next[p], n - 1)

\* The queue's content as a traversal from head sees it.
Chain == Walk(head, NElts + 1)

Reachable(e) == \E i \in 1 .. Len(Chain) : Chain[i] = e

\* An element is busy while it is the argument or the result of a call in progress.
Busy(e) == \E u \in Threads : elt[u] = e

Running == fault = "none" /\ ~destroyed

Event(o, t, e, i, b) == [op |-> o, thr |-> t, elt |-> e, id |-> i, empty |-> b]

\* The history with one more event, when it is kept.
Log(ev) == IF logging THEN Append(hist, ev) ELSE hist

\* The latest push of element e in the history (0: never pushed).
RECURSIVE LastPush(_, _)
LastPush(e, i) ==
    IF i = 0 THEN 0
    ELSE IF hist[i].op = "push" /\ hist[i].elt = e THEN i ELSE LastPush(e, i - 1)

StampOf(e) == IF Valid(e) THEN LastPush(e, Len(hist)) ELSE 0

\* ------------------------------------------------------------------- init

\* ISC_QUEUE_INIT: both mutexes unlocked, tail = head = NULL;
\* ISC_QLINK_INIT on every element: next = prev = (void *)(-1).
QueueInit ==
    /\ head = NULL
    /\ tail = NULL
    /\ headlock = NOBODY
    /\ taillock = NOBODY
    /\ prev = [e \in Elts |-> NOTLINKED]
    /\ next = [e \in Elts |-> NOTLINKED]
    /\ pc = [t \in Threads |-> "idle"]
    /\ elt = [t \in Threads |-> NULL]
    /\ headlocked = [t \in Threads |-> FALSE]
    /\ fault = "none"
    /\ destroyed = FALSE
    /\ nops = 0
    /\ hist = <<>>

\* --------------------------------------------------------- ISC_QUEUE_PUSH

\* A push that keeps the tail lock while it goes for the head lock.
PushTailKept(t) == t

\* queue.h:96-98: who holds the tail lock after LOCK(&(queue).taillock);
\* if ((queue).tail == NULL) UNLOCK(&(queue).taillock)
PushTailOwner(t) == IF tail = NULL THEN NOBODY ELSE t

\* queue.h:94-98: bool headlocked = false; the caller's element is not linked;
\* LOCK(&(queue).taillock); if ((queue).tail == NULL) UNLOCK(&(queue).taillock).
\* The call begins when it takes the tail lock; the test of tail is made under
\* that lock, so taking it and (on an empty queue) giving it back is one step.
PushLockTail(t, e) ==
    /\ Running /\ t \in active /\ pc[t] = "idle" /\ nops < MaxOps
    /\ e \in pool /\ ~ISC_QLINK_LINKED(e) /\ ~Busy(e)
    /\ taillock = NOBODY
    /\ taillock' = PushTailOwner(t)
    /\ pc' = [pc EXCEPT ![t] = IF tail = NULL THEN "push_lockhead" ELSE "push_link"]
    /\ elt' = [elt EXCEPT ![t] = e]
    /\ headlocked' = [headlocked EXCEPT ![t] = FALSE]
    /\ nops' = nops + 1
    /\ hist' = Log(Event("push", t, e, Len(hist) + 1, ISC_QUEUE_EMPTY))
    /\ UNCHANGED <<head, tail, headlock, prev, next, fault, active, pool,
                   checkinit, destroyed, logging, rvars, lvars>>

\* queue.h:99: LOCK(&(queue).headlock)
PushLockHead(t) ==
    /\ Running /\ pc[t] = "push_lockhead" /\ headlock = NOBODY
    /\ headlock' = t
    /\ pc' = [pc EXCEPT ![t] = "push_relock"]
    /\ UNCHANGED <<head, tail, taillock, prev, next, elt, headlocked, fault,
                   active, pool, checkinit, destroyed, logging, rvars, lvars, nops, hist>>

\* queue.h:100-101: LOCK(&(queue).taillock); headlocked = true
PushRelockTail(t) ==
    /\ Running /\ pc[t] = "push_relock" /\ taillock = NOBODY
    /\ taillock' = t
    /\ headlocked' = [headlocked EXCEPT ![t] = TRUE]
    /\ pc' = [pc EXCEPT ![t] = "push_link"]
    /\ UNCHANGED <<head, tail, headlock, prev, next, elt, fault, active, pool, checkinit, destroyed, logging, rvars, lvars,
                   nops, hist>>

\* queue.h:103-104: (elt)->link.prev = (queue).tail; (elt)->link.next = NULL
PushLink(t) ==
    /\ Running /\ pc[t] = "push_link"
    /\ prev' = [prev EXCEPT ![elt[t]] = tail]
    /\ next' = [next EXCEPT ![elt[t]] = NULL]
    /\ pc' = [pc EXCEPT ![t] = "push_tailnext"]
    /\ UNCHANGED <<head, tail, headlock, taillock, elt, headlocked, fault,
                   active, pool, checkinit, destroyed, logging, rvars, lvars, nops, hist>>

\* queue.h:105-106: if ((queue).tail != NULL) (queue).tail->link.next = (elt)
PushTailNextValue(t) ==
    IF tail # NULL THEN [next EXCEPT ![tail] = elt[t]] ELSE next

PushTailNext(t) ==
    /\ Running /\ pc[t] = "push_tailnext"
    /\ IF tail # NULL /\ ~Valid(tail)
       THEN /\ fault' = "segv"
            /\ UNCHANGED <<next, pc>>
       ELSE /\ next' = PushTailNextValue(t)
            /\ pc' = [pc EXCEPT ![t] = "push_settail"]
            /\ fault' = fault
    /\ UNCHANGED <<head, tail, headlock, taillock, prev, elt, headlocked,
                   active, pool, checkinit, destroyed, logging, rvars, lvars, nops, hist>>

\* queue.h:107-109: (queue).tail = (elt); UNLOCK(&(queue).taillock);
\* if (headlocked) ...   (without headlocked the macro ends here)
PushSetTail(t) ==
    /\ Running /\ pc[t] = "push_settail"
    /\ tail' = elt[t]
    /\ taillock' = NOBODY
    /\ IF headlocked[t]
       THEN /\ pc' = [pc EXCEPT ![t] = "push_sethead"]
            /\ elt' = elt
       ELSE /\ pc' = [pc EXCEPT ![t] = "idle"]
            /\ elt' = [elt EXCEPT ![t] = NULL]
    /\ UNCHANGED <<head, headlock, prev, next, headlocked, fault, active, pool, checkinit, destroyed, logging, rvars, lvars,
                   nops, hist>>

\* A push that leaves head as it is.
PushHeadKept(t) == head

\* queue.h:110-111: if ((queue).head == NULL) (queue).head = (elt)

PushHeadValue(t) == IF head = NULL THEN elt[t] ELSE head

\* queue.h:110-112: ...; UNLOCK(&(queue).headlock)
PushSetHead(t) ==
    /\ Running /\ pc[t] = "push_sethead"
    /\ head' = PushHeadValue(t)
    /\ headlock' = NOBODY
    /\ pc' = [pc EXCEPT ![t] = "idle"]
    /\ elt' = [elt EXCEPT ![t] = NULL]
    /\ headlocked' = [headlocked EXCEPT ![t] = FALSE]
    /\ UNCHANGED <<tail, taillock, prev, next, fault, active, pool, checkinit, destroyed, logging, rvars, lvars, nops, hist>>

\* ---------------------------------------------------------- ISC_QUEUE_POP

\* queue.h:118-119: LOCK(&(queue).headlock); ret = (queue).head
\* The call begins when it takes the head lock.
PopLockHead(t) ==
    /\ Running /\ t \in active /\ pc[t] = "idle" /\ nops < MaxOps
    /\ headlock = NOBODY
    /\ headlock' = t
    /\ elt' = [elt EXCEPT ![t] = head]
    /\ pc' = [pc EXCEPT ![t] = "pop_test"]
    /\ nops' = nops + 1
    /\ UNCHANGED <<head, tail, taillock, prev, next, headlocked, fault,
                   active, pool, checkinit, destroyed, logging, rvars, lvars, hist>>

\* A loop that is entered whatever ret is.
PopLoopAlways(t) == TRUE

\* queue.h:120: while (ret != NULL)
PopLoop(t) == elt[t] # NULL

\* A pop that takes the tail lock whatever follows ret.
PopLastAlways(t) == TRUE

\* queue.h:121: if (ret->link.next == NULL)
PopLast(t) == next[elt[t]] = NULL

\* queue.h:120-121: while (ret != NULL) { if (ret->link.next == NULL) ...
\* The read of ret->link.next is made without the tail lock.
PopTest(t) ==
    /\ Running /\ pc[t] = "pop_test"
    /\ IF ~PopLoop(t)
       THEN pc' = [pc EXCEPT ![t] = "pop_unlock"] /\ fault' = fault
       ELSE IF ~Valid(elt[t])
       THEN pc' = pc /\ fault' = "segv"
       ELSE IF PopLast(t)
       THEN pc' = [pc EXCEPT ![t] = "pop_locktail"] /\ fault' = fault
       ELSE pc' = [pc EXCEPT ![t] = "pop_advance"] /\ fault' = fault
    /\ UNCHANGED <<head, tail, headlock, taillock, prev, next, elt, headlocked,
                   active, pool, checkinit, destroyed, logging, rvars, lvars, nops, hist>>

\* queue.h:122: LOCK(&(queue).taillock)
PopLockTail(t) ==
    /\ Running /\ pc[t] = "pop_locktail" /\ taillock = NOBODY
    /\ taillock' = t
    /\ pc' = [pc EXCEPT ![t] = "pop_retest"]
    /\ UNCHANGED <<head, tail, headlock, prev, next, elt, headlocked, fault,
                   active, pool, checkinit, destroyed, logging, rvars, lvars, nops, hist>>

\* A second test that always finds ret the last element.
PopNoRecheck(t) == TRUE

\* queue.h:123: if (ret->link.next == NULL), now under the tail lock

PopStillLast(t) == next[elt[t]] = NULL

\* queue.h:123-128: if (...) { head = tail = NULL; UNLOCK(taillock); break; }
\* UNLOCK(taillock)
PopRetest(t) ==
    /\ Running /\ pc[t] = "pop_retest"
    /\ IF PopStillLast(t)
       THEN /\ head' = NULL
            /\ tail' = NULL
            /\ pc' = [pc EXCEPT ![t] = "pop_unlock"]
       ELSE /\ UNCHANGED <<head, tail>>
            /\ pc' = [pc EXCEPT ![t] = "pop_advance"]
    /\ taillock' = NOBODY
    /\ UNCHANGED <<headlock, prev, next, elt, headlocked, fault, active, pool, checkinit, destroyed, logging, rvars, lvars,
                   nops, hist>>

\* queue.h:130-132: (queue).head = ret->link.next;
\* (queue).head->link.prev = NULL; break
PopAdvance(t) ==
    /\ Running /\ pc[t] = "pop_advance"
    /\ IF Valid(next[elt[t]])
       THEN /\ head' = next[elt[t]]
            /\ prev' = [prev EXCEPT ![next[elt[t]]] = NULL]
            /\ pc' = [pc EXCEPT ![t] = "pop_unlock"]
            /\ fault' = fault
       ELSE /\ head' = next[elt[t]]
            /\ fault' = "segv"
            /\ UNCHANGED <<prev, pc>>
    /\ UNCHANGED <<tail, headlock, taillock, next, elt, headlocked,
                   active, pool, checkinit, destroyed, logging, rvars, lvars, nops, hist>>

\* queue.h:134: UNLOCK(&(queue).headlock)
PopUnlock(t) ==
    /\ Running /\ pc[t] = "pop_unlock"
    /\ headlock' = NOBODY
    /\ pc' = [pc EXCEPT ![t] = "pop_mark"]
    /\ UNCHANGED <<head, tail, taillock, prev, next, elt, headlocked, fault,
                   active, pool, checkinit, destroyed, logging, rvars, lvars, nops, hist>>

\* queue.h:135-136: if (ret != NULL) (ret)->link.next = (ret)->link.prev = (void *)(-1)
\* and the macro ends: ret is the caller's.
PopMark(t) ==
    /\ Running /\ pc[t] = "pop_mark"
    /\ IF elt[t] # NULL
       THEN /\ prev' = [prev EXCEPT ![elt[t]] = NOTLINKED]
            /\ next' = [next EXCEPT ![elt[t]] = NOTLINKED]
       ELSE UNCHANGED <<prev, next>>
    /\ hist' = Log(Event("pop", t, elt[t], StampOf(elt[t]), FALSE))
    /\ pc' = [pc EXCEPT ![t] = "idle"]
    /\ elt' = [elt EXCEPT ![t] = NULL]
    /\ UNCHANGED <<head, tail, headlock, taillock, headlocked, fault, active, pool, checkinit, destroyed,
                   logging, rvars, lvars, nops>>

\* ------------------------------------------------------- ISC_QUEUE_UNLINK

\* queue.h:144-151, the statements ISC_QUEUE_UNLINK and ISC_QUEUE_UNLINKIFLINKED
\* share: the first if/else (head or the predecessor's next), then the second
\* (tail or the successor's prev), which reads the links the first left.
UnlinkNext(e) ==
    IF prev[e] = NULL THEN next ELSE [next EXCEPT ![prev[e]] = next[e]]

UnlinkHead(e) == IF prev[e] = NULL THEN next[e] ELSE head

UnlinkPrev(e) ==
    IF UnlinkNext(e)[e] = NULL THEN prev
    ELSE [prev EXCEPT ![UnlinkNext(e)[e]] = prev[e]]

\* An unlink that never moves tail.
UnlinkTailKept(e) == tail

UnlinkTail(e) == IF UnlinkNext(e)[e] = NULL THEN prev[e] ELSE tail

\* Whether the statements dereference a pointer that is not an element.
UnlinkFaults(e) ==
    \/ prev[e] # NULL /\ ~Valid(prev[e])
    \/ UnlinkNext(e)[e] # NULL /\ ~Valid(UnlinkNext(e)[e])

PushPCs == {"push_lockhead", "push_relock", "push_link", "push_tailnext",
            "push_settail", "push_sethead"}

BeingPushed(e) == \E u \in Threads : elt[u] = e /\ pc[u] \in PushPCs

\* queue.h:141-142: the caller's element is linked in this queue when the call
\* takes the head lock; LOCK(&(queue).headlock)
UnlinkLockHead(t, e) ==
    /\ Running /\ t \in active /\ pc[t] = "idle" /\ nops < MaxOps
    /\ ISC_QLINK_LINKED(e) /\ Reachable(e) /\ ~BeingPushed(e)
    /\ headlock = NOBODY
    /\ headlock' = t
    /\ elt' = [elt EXCEPT ![t] = e]
    /\ pc' = [pc EXCEPT ![t] = "unlink_locktail"]
    /\ nops' = nops + 1
    /\ hist' = Log(Event("unlink", t, e, StampOf(e), FALSE))
    /\ UNCHANGED <<head, tail, taillock, prev, next, headlocked, fault, active, pool, checkinit, destroyed, logging, rvars, lvars>>

\* queue.h:143: LOCK(&(queue).taillock)
UnlinkLockTail(t) ==
    /\ Running /\ pc[t] = "unlink_locktail" /\ taillock = NOBODY
    /\ taillock' = t
    /\ pc' = [pc EXCEPT ![t] = "unlink_body"]
    /\ UNCHANGED <<head, tail, headlock, prev, next, elt, headlocked, fault,
                   active, pool, checkinit, destroyed, logging, rvars, lvars, nops, hist>>

\* queue.h:144-151
UnlinkBody(t) ==
    /\ Running /\ pc[t] = "unlink_body"
    /\ IF UnlinkFaults(elt[t])
       THEN /\ fault' = "segv"
            /\ UNCHANGED <<head, tail, prev, next, pc>>
       ELSE /\ head' = UnlinkHead(elt[t])
            /\ tail' = UnlinkTail(elt[t])
            /\ next' = UnlinkNext(elt[t])
            /\ prev' = UnlinkPrev(elt[t])
            /\ pc' = [pc EXCEPT ![t] = "unlink_unlock"]
            /\ fault' = fault
    /\ UNCHANGED <<headlock, taillock, elt, headlocked, active, pool, checkinit, destroyed, logging, rvars, lvars, nops, hist>>

\* queue.h:152-153: UNLOCK(&(queue).taillock); UNLOCK(&(queue).headlock)
UnlinkUnlock(t) ==
    /\ Running /\ pc[t] = "unlink_unlock"
    /\ taillock' = NOBODY
    /\ headlock' = NOBODY
    /\ pc' = [pc EXCEPT ![t] = "unlink_mark"]
    /\ UNCHANGED <<head, tail, prev, next, elt, headlocked, fault, active, pool, checkinit, destroyed, logging, rvars, lvars, nops, hist>>

\* queue.h:154: (elt)->link.next = (elt)->link.prev = (void *)(-1)
UnlinkMark(t) ==
    /\ Running /\ pc[t] = "unlink_mark"
    /\ prev' = [prev EXCEPT ![elt[t]] = NOTLINKED]
    /\ next' = [next EXCEPT ![elt[t]] = NOTLINKED]
    /\ pc' = [pc EXCEPT ![t] = "idle"]
    /\ elt' = [elt EXCEPT ![t] = NULL]
    /\ UNCHANGED <<head, tail, headlock, taillock, headlocked, fault, active, pool, checkinit, destroyed, logging, rvars, lvars,
                   nops, hist>>

\* ----------------------------------------------- ISC_QUEUE_UNLINKIFLINKED

\* The caller does not know whether its element is linked; no other thread is
\* pushing that element.
UnlinkIfBegin(t, e) ==
    /\ Running /\ t \in active /\ pc[t] = "idle" /\ nops < MaxOps
    /\ e \in pool /\ ~BeingPushed(e)
    /\ elt' = [elt EXCEPT ![t] = e]
    /\ pc' = [pc EXCEPT ![t] = "unlinkif_lockhead"]
    /\ nops' = nops + 1
    /\ hist' = Log(Event("unlinkif", t, e, StampOf(e), FALSE))
    /\ UNCHANGED <<head, tail, headlock, taillock, prev, next, headlocked,
                   fault, active, pool, checkinit, destroyed, logging, rvars, lvars>>

\* queue.h:159: LOCK(&(queue).headlock)
UnlinkIfLockHead(t) ==
    /\ Running /\ pc[t] = "unlinkif_lockhead" /\ headlock = NOBODY
    /\ headlock' = t
    /\ pc' = [pc EXCEPT ![t] = "unlinkif_locktail"]
    /\ UNCHANGED <<head, tail, taillock, prev, next, elt, headlocked, fault,
                   active, pool, checkinit, destroyed, logging, rvars, lvars, nops, hist>>

\* queue.h:160: LOCK(&(queue).taillock)
UnlinkIfLockTail(t) ==
    /\ Running /\ pc[t] = "unlinkif_locktail" /\ taillock = NOBODY
    /\ taillock' = t
    /\ pc' = [pc EXCEPT ![t] = "unlinkif_body"]
    /\ UNCHANGED <<head, tail, headlock, prev, next, elt, headlocked, fault,
                   active, pool, checkinit, destroyed, logging, rvars, lvars, nops, hist>>

\* queue.h:161-170: if (ISC_QLINK_LINKED(elt, link)) { ... }
UnlinkIfBody(t) ==
    /\ Running /\ pc[t] = "unlinkif_body"
    /\ IF ~ISC_QLINK_LINKED(elt[t])
       THEN /\ pc' = [pc EXCEPT ![t] = "unlinkif_unlock"]
            /\ UNCHANGED <<head, tail, prev, next, fault>>
       ELSE IF UnlinkFaults(elt[t])
       THEN /\ fault' = "segv"
            /\ UNCHANGED <<head, tail, prev, next, pc>>
       ELSE /\ head' = UnlinkHead(elt[t])
            /\ tail' = UnlinkTail(elt[t])
            /\ next' = UnlinkNext(elt[t])
            /\ prev' = UnlinkPrev(elt[t])
            /\ pc' = [pc EXCEPT ![t] = "unlinkif_unlock"]
            /\ fault' = fault
    /\ UNCHANGED <<headlock, taillock, elt, headlocked, active, pool, checkinit, destroyed, logging, rvars, lvars, nops, hist>>

\* queue.h:171-172: UNLOCK(&(queue).taillock); UNLOCK(&(queue).headlock)
UnlinkIfUnlock(t) ==
    /\ Running /\ pc[t] = "unlinkif_unlock"
    /\ taillock' = NOBODY
    /\ headlock' = NOBODY
    /\ pc' = [pc EXCEPT ![t] = "unlinkif_mark"]
    /\ UNCHANGED <<head, tail, prev, next, elt, headlocked, fault, active, pool, checkinit, destroyed, logging, rvars, lvars, nops, hist>>

\* queue.h:173: (elt)->link.next = (elt)->link.prev = (void *)(-1)
UnlinkIfMark(t) ==
    /\ Running /\ pc[t] = "unlinkif_mark"
    /\ prev' = [prev EXCEPT ![elt[t]] = NOTLINKED]
    /\ next' = [next EXCEPT ![elt[t]] = NOTLINKED]
    /\ pc' = [pc EXCEPT ![t] = "idle"]
    /\ elt' = [elt EXCEPT ![t] = NULL]
    /\ UNCHANGED <<head, tail, headlock, taillock, headlocked, fault, active, pool, checkinit, destroyed, logging, rvars, lvars,
                   nops, hist>>

\* ---------------------------------------------------------- specifications

ISC_QUEUE_PUSH(t) ==
    \/ \E e \in Elts : PushLockTail(t, e)
    \/ PushLockHead(t) \/ PushRelockTail(t) \/ PushLink(t) \/ PushTailNext(t)
    \/ PushSetTail(t) \/ PushSetHead(t)

ISC_QUEUE_POP(t) ==
    \/ PopLockHead(t) \/ PopTest(t) \/ PopLockTail(t) \/ PopRetest(t)
    \/ PopAdvance(t) \/ PopUnlock(t) \/ PopMark(t)

ISC_QUEUE_UNLINK(t) ==
    \/ \E e \in Elts : UnlinkLockHead(t, e)
    \/ UnlinkLockTail(t) \/ UnlinkBody(t) \/ UnlinkUnlock(t) \/ UnlinkMark(t)

ISC_QUEUE_UNLINKIFLINKED(t) ==
    \/ \E e \in Elts : UnlinkIfBegin(t, e)
    \/ UnlinkIfLockHead(t) \/ UnlinkIfLockTail(t) \/ UnlinkIfBody(t)
    \/ UnlinkIfUnlock(t) \/ UnlinkIfMark(t)

\* ------------------------------------- callers that break a precondition

\* queue.h:94-98 with an element that is linked: ISC_QLINK_INSIST(!ISC_QLINK_LINKED
\* (elt, link)) is ISC_INSIST in a build that defines ISC_QUEUE_CHECKINIT and
\* (void)0 in any other (queue.h:30-34); after it the macro goes on as in
\* PushLockTail.
PushLinked(t, e) ==
    /\ Running /\ t \in active /\ pc[t] = "idle" /\ nops < MaxOps
    /\ e \in pool /\ ISC_QLINK_LINKED(e) /\ ~Busy(e)
    /\ nops' = nops + 1
    /\ IF checkinit
       THEN /\ fault' = "insist"
            /\ UNCHANGED <<taillock, pc, elt, headlocked, hist>>
       ELSE /\ taillock = NOBODY
            /\ taillock' = PushTailOwner(t)
            /\ pc' = [pc EXCEPT ![t] = IF tail = NULL THEN "push_lockhead"
                                                      ELSE "push_link"]
            /\ elt' = [elt EXCEPT ![t] = e]
            /\ headlocked' = [headlocked EXCEPT ![t] = FALSE]
            /\ hist' = Log(Event("push", t, e, Len(hist) + 1, ISC_QUEUE_EMPTY))
            /\ fault' = fault
    /\ UNCHANGED <<head, tail, headlock, prev, next, active, pool, checkinit,
                   destroyed, logging, rvars, lvars>>

\* queue.h:59-64: ISC_QLINK_INSIST(ISC_QUEUE_EMPTY(queue)); isc_mutex_destroy of
\* both locks.  The caller is the last user of the queue: no call is in
\* progress, both locks are free.
ISC_QUEUE_DESTROY(t) ==
    /\ Running /\ t \in active /\ nops < MaxOps
    /\ \A u \in Threads : pc[u] = "idle"
    /\ nops' = nops + 1
    /\ IF checkinit /\ ~ISC_QUEUE_EMPTY
       THEN fault' = "insist" /\ destroyed' = destroyed
       ELSE fault' = fault /\ destroyed' = TRUE
    /\ UNCHANGED <<head, tail, headlock, taillock, prev, next, pc, elt,
                   headlocked, active, pool, checkinit, logging, rvars, lvars, hist>>

\* ------------------------------------------------------------ isc_refcount
\*
\* refcount.h defines the counter three times: on the C11 atomics
\* (refcount.h:124-159), on a mutex (refcount.h:200-263), and for a build
\* without threads (refcount.h:267-302).  refs[v] is the counter of variant v.
\* Every macro is called with a non-null target pointer, so that what it
\* reports can be observed.

Variants == {"atomic", "mutex", "nothreads"}

\* The variants that exist in a threaded build.
ThreadedVariants == {"atomic", "mutex"}

\* refcount.h:133, :143: atomic_fetch_add_explicit(&refs, 1, ...) on an
\* int32_t; the addition wraps.
FetchAdd(r) == IF r = 2147483647 THEN -2147483647 - 1 ELSE r + 1

\* A subtraction whose result is not stored: the update is lost.
FetchSubLost(r) == r

\* refcount.h:154: atomic_fetch_sub_explicit(&refs, 1, ...) on an int32_t; the
\* subtraction wraps.
FetchSub(r) == IF r = -2147483647 - 1 THEN 2147483647 ELSE r - 1

\* The conversion of an int32_t to unsigned int (refcount.h:125, :136, :274):
\* the value modulo 2^32, written as its high and low 16 bits.
ToUnsigned(x) == <<(x \div 65536) % 65536, x % 65536>>

\* What one call leaves behind: the count, the value stored through the target
\* pointer (<<>> when the call stored none), and whether its REQUIRE failed.
Outcome(r, rep, f) == [refs |-> r, report |-> rep, fault |-> f]

NoOutcome == Outcome(0, <<>>, FALSE)

\* refcount.h:124-126: isc_refcount_current, stdatomic variant
AtomicCurrent(r) == Outcome(r, <<ToUnsigned(r)>>, FALSE)

\* A destroy that requires nothing.
AtomicDestroyUnchecked(r) == Outcome(r, <<>>, FALSE)

\* refcount.h:127: ISC_REQUIRE(isc_refcount_current(rp) == 0)
AtomicDestroy(r) == Outcome(r, <<>>, ToUnsigned(r) # ToUnsigned(0))

\* An increment0 that requires prev > 0, as isc_refcount_increment does.
AtomicIncrement0Strict(r) ==
    IF r > 0
    THEN Outcome(FetchAdd(r), <<ToUnsigned(r + 1)>>, FALSE)
    ELSE Outcome(FetchAdd(r), <<>>, TRUE)

\* refcount.h:129-137: prev = atomic_fetch_add_explicit(&refs, 1, ...);
\* *_tmp = prev + 1
AtomicIncrement0(r) == Outcome(FetchAdd(r), <<ToUnsigned(r + 1)>>, FALSE)

\* refcount.h:139-148: prev = atomic_fetch_add_explicit(&refs, 1, ...);
\* ISC_REQUIRE(prev > 0); *_tmp = prev + 1.  The addition is made before the
\* REQUIRE is evaluated.
AtomicIncrement(r) ==
    IF r > 0
    THEN Outcome(FetchAdd(r), <<ToUnsigned(r + 1)>>, FALSE)
    ELSE Outcome(FetchAdd(r), <<>>, TRUE)

\* refcount.h:150-159: prev = atomic_fetch_sub_explicit(&refs, 1, ...);
\* ISC_REQUIRE(prev > 0); *_tmp = prev - 1.  The subtraction is made before
\* the REQUIRE is evaluated.
AtomicDecrement(r) ==
    IF r > 0
    THEN Outcome(FetchSub(r), <<ToUnsigned(r - 1)>>, FALSE)
    ELSE Outcome(FetchSub(r), <<>>, TRUE)

\* refcount.h:206-212: ISC_REQUIRE((rp)->refs == 0); isc_mutex_destroy(&lock).
\* The mutex is destroyed by a caller that does not hold it.
MutexDestroy(r) == Outcome(r, <<>>, r # 0)

\* refcount.h:214 declares isc_refcount_current for the mutex variant; its
\* body is not in the header.  It is taken to return the count, as
\* refcount.h:124-126 and :274 do.
MutexCurrent(r) == Outcome(r, <<ToUnsigned(r)>>, FALSE)

\* refcount.h:220-231: ++((rp)->refs); *_tmp = ((rp)->refs), under the lock
MutexIncrement0(r) == Outcome(r + 1, <<ToUnsigned(r + 1)>>, FALSE)

\* refcount.h:233-245: ISC_REQUIRE((rp)->refs > 0); ++((rp)->refs);
\* *_tmp = ((rp)->refs), under the lock
MutexIncrement(r) ==
    IF r > 0
    THEN Outcome(r + 1, <<ToUnsigned(r + 1)>>, FALSE)
    ELSE Outcome(r, <<>>, TRUE)

\* A decrement without its REQUIRE.
MutexDecrementUnchecked(r) == Outcome(r - 1, <<ToUnsigned(r - 1)>>, FALSE)

\* refcount.h:251-263: ISC_REQUIRE((rp)->refs > 0); --((rp)->refs);
\* *_tmp = ((rp)->refs), under the lock
MutexDecrement(r) ==
    IF r > 0
    THEN Outcome(r - 1, <<ToUnsigned(r - 1)>>, FALSE)
    ELSE Outcome(r, <<>>, TRUE)

\* refcount.h:273: ISC_REQUIRE((rp)->refs == 0)
NoThreadsDestroy(r) == Outcome(r, <<>>, r # 0)

\* refcount.h:274: ((unsigned int)((rp)->refs))
NoThreadsCurrent(r) == Outcome(r, <<ToUnsigned(r)>>, FALSE)

\* refcount.h:276-282: int _n = ++(rp)->refs; *_tmp = _n
NoThreadsIncrement0(r) == Outcome(r + 1, <<ToUnsigned(r + 1)>>, FALSE)

\* refcount.h:284-292: ISC_REQUIRE((rp)->refs > 0); _n = ++(rp)->refs; *_tmp = _n
NoThreadsIncrement(r) ==
    IF r > 0
    THEN Outcome(r + 1, <<ToUnsigned(r + 1)>>, FALSE)
    ELSE Outcome(r, <<>>, TRUE)

\* refcount.h:294-302: ISC_REQUIRE((rp)->refs > 0); _n = --(rp)->refs; *_tmp = _n
NoThreadsDecrement(r) ==
    IF r > 0
    THEN Outcome(r - 1, <<ToUnsigned(r - 1)>>, FALSE)
    ELSE Outcome(r, <<>>, TRUE)

\* refcount.h:306-307 declares isc_refcount_init(ref, n); its body is not in
\* the header.  It is taken to set the count to n (and, in the mutex variant,
\* to initialise the lock).
isc_refcount_init(n) == [v \in Variants |-> n]

Ops == {"increment0", "increment", "decrement", "current", "destroy"}

AtomicCall(op, r) ==
    CASE op = "increment0" -> AtomicIncrement0(r)
      [] op = "increment"  -> AtomicIncrement(r)
      [] op = "decrement"  -> AtomicDecrement(r)
      [] op = "current"    -> AtomicCurrent(r)
      [] op = "destroy"    -> AtomicDestroy(r)

MutexCall(op, r) ==
    CASE op = "increment0" -> MutexIncrement0(r)
      [] op = "increment"  -> MutexIncrement(r)
      [] op = "decrement"  -> MutexDecrement(r)
      [] op = "current"    -> MutexCurrent(r)
      [] op = "destroy"    -> MutexDestroy(r)

NoThreadsCall(op, r) ==
    CASE op = "increment0" -> NoThreadsIncrement0(r)
      [] op = "increment"  -> NoThreadsIncrement(r)
      [] op = "decrement"  -> NoThreadsDecrement(r)
      [] op = "current"    -> NoThreadsCurrent(r)
      [] op = "destroy"    -> NoThreadsDestroy(r)

\* The macro op of variant v, called on a counter that holds r.
Call(v, op, r) ==
    CASE v = "atomic"    -> AtomicCall(op, r)
      [] v = "mutex"     -> MutexCall(op, r)
      [] v = "nothreads" -> NoThreadsCall(op, r)

Silent == [v \in Variants |-> <<>>]

Fine == [v \in Variants |-> FALSE]

\* The counters as isc_refcount_init(ref, n) leaves them, no call in progress.
RefStart(n) ==
    /\ refs = isc_refcount_init(n)
    /\ mutexLock = NOBODY
    /\ rpc = [t \in Threads |-> "idle"]
    /\ rop = [t \in Threads |-> "none"]
    /\ rres = [t \in Threads |-> NoOutcome]
    /\ rfault = "none"
    /\ rcalls = 0
    /\ rlast = [op |-> "init", prior |-> isc_refcount_init(n), report |-> Silent,
                fault |-> Fine, prevOp |-> "none", prevReport |-> Silent]
    /\ rlog = Silent

RefInit == \E n \in 0 .. MaxInit : RefStart(n)

\* The last call was a destroy that succeeded: the counter is gone until it is
\* initialised again.
Destroyed == rlast.op = "destroy" /\ \A v \in Variants : ~rlast.fault[v]

\* One thread makes the same call on the counter of every variant.  A failed
\* REQUIRE aborts the process.
RefCall(op) ==
    /\ rfault = "none" /\ ~Destroyed /\ rcalls < MaxCalls
    /\ LET out == [v \in Variants |-> Call(v, op, refs[v])] IN
         /\ refs' = [v \in Variants |-> out[v].refs]
         /\ rlast' = [op |-> op, prior |-> refs,
                      report |-> [v \in Variants |-> out[v].report],
                      fault |-> [v \in Variants |-> out[v].fault],
                      prevOp |-> rlast.op, prevReport |-> rlast.report]
         /\ rfault' = IF \E v \in Variants : out[v].fault THEN "require" ELSE "none"
    /\ rcalls' = rcalls + 1
    /\ UNCHANGED <<mutexLock, rpc, rop, rres, rlog, qvars, lvars>>

SeqIncrement0 == RefCall("increment0")

SeqIncrement == RefCall("increment")

SeqDecrement == RefCall("decrement")

SeqCurrent == RefCall("current")

SeqDestroy == RefCall("destroy")

\* isc_refcount_init on a counter that was destroyed.
SeqInit(n) ==
    /\ rfault = "none" /\ Destroyed /\ rcalls < MaxCalls
    /\ refs' = isc_refcount_init(n)
    /\ rlast' = [op |-> "init", prior |-> refs, report |-> Silent, fault |-> Fine,
                 prevOp |-> rlast.op, prevReport |-> rlast.report]
    /\ rcalls' = rcalls + 1
    /\ UNCHANGED <<mutexLock, rpc, rop, rres, rfault, rlog, qvars, lvars>>

\* What a concurrent call did to refs: the macro, the value it stored through
\* its target pointer, and whether its REQUIRE fails.
Entry(op, out) == [op |-> op, report |-> out.report, fault |-> out.fault]

\* The macros that change the count.
CountOps == {"increment0", "increment", "decrement"}

\* refcount.h:133, :143, :154: the call begins with its atomic_fetch_add or
\* atomic_fetch_sub; prev and the value to report are local to the caller.
AtomicFetch(t, op) ==
    /\ rfault = "none" /\ rpc[t] = "idle" /\ rcalls < MaxCalls
    /\ refs' = [refs EXCEPT !["atomic"] = AtomicCall(op, refs["atomic"]).refs]
    /\ rres' = [rres EXCEPT ![t] = AtomicCall(op, refs["atomic"])]
    /\ rop' = [rop EXCEPT ![t] = op]
    /\ rpc' = [rpc EXCEPT ![t] = "atomic_require"]
    /\ rcalls' = rcalls + 1
    /\ rlog' = [rlog EXCEPT !["atomic"] =
                    Append(@, Entry(op, AtomicCall(op, refs["atomic"])))]
    /\ UNCHANGED <<mutexLock, rfault, rlast, qvars, lvars>>

\* refcount.h:145-147, :156-158: ISC_REQUIRE(prev > 0); *_tmp = ...
AtomicRequire(t) ==
    /\ rfault = "none" /\ rpc[t] = "atomic_require"
    /\ IF rres[t].fault
       THEN rfault' = "require" /\ rpc' = rpc
       ELSE rfault' = rfault /\ rpc' = [rpc EXCEPT ![t] = "idle"]
    /\ UNCHANGED <<refs, mutexLock, rop, rres, rcalls, rlast, rlog, qvars, lvars>>

\* refcount.h:224, :237, :255: isc_mutex_lock(&(rp)->lock)
MutexLock(t, op) ==
    /\ rfault = "none" /\ rpc[t] = "idle" /\ rcalls < MaxCalls
    /\ mutexLock = NOBODY
    /\ mutexLock' = t
    /\ rop' = [rop EXCEPT ![t] = op]
    /\ rpc' = [rpc EXCEPT ![t] = "mutex_body"]
    /\ rcalls' = rcalls + 1
    /\ UNCHANGED <<refs, rres, rfault, rlast, rlog, qvars, lvars>>

\* refcount.h:226-228, :239-242, :257-260: the REQUIRE, the change of refs and
\* the store through the target pointer, all under the lock
MutexBody(t) ==
    /\ rfault = "none" /\ rpc[t] = "mutex_body"
    /\ LET out == MutexCall(rop[t], refs["mutex"]) IN
         IF out.fault
         THEN rfault' = "require" /\ UNCHANGED <<refs, rres, rpc, rlog>>
         ELSE /\ refs' = [refs EXCEPT !["mutex"] = out.refs]
              /\ rres' = [rres EXCEPT ![t] = out]
              /\ rpc' = [rpc EXCEPT ![t] = "mutex_unlock"]
              /\ rfault' = rfault
              /\ rlog' = [rlog EXCEPT !["mutex"] = Append(@, Entry(rop[t], out))]
    /\ UNCHANGED <<mutexLock, rop, rcalls, rlast, qvars, lvars>>

\* refcount.h:229, :243, :261: isc_mutex_unlock(&(rp)->lock)
MutexUnlock(t) ==
    /\ rfault = "none" /\ rpc[t] = "mutex_unlock"
    /\ mutexLock' = NOBODY
    /\ rpc' = [rpc EXCEPT ![t] = "idle"]
    /\ UNCHANGED <<refs, rop, rres, rfault, rcalls, rlast, rlog, qvars, lvars>>

\* ------------------------------------------------------------- isc_rwlock
\*
\* rwlock.h declares struct isc_rwlock (rwlock.h:51-117) and the functions
\* (rwlock.h:127-147); their bodies are not in the header.  The functions are
\* modelled on the fields of the atomic variant (rwlock.h:70-91) as the
\* "simple writer-preference lock" the header names (rwlock.h:63-68) and the
\* specification describes: a reader claims a slot with one atomic addition to
\* cnt_and_flag, a writer takes a ticket from write_requests, waits for its
\* turn and for the readers to leave, and sets the writer-active bit; readers
\* that arrive while a writer is queued or active sleep on readable, writers
\* sleep on writeable.  The statements between LOCK(&rwl->lock) and UNLOCK
\* are one step; condition variables do not wake without a broadcast.

\* The threads that use the lock.
Lockers == 1 .. NLockers

\* The writer-active bit and the unit of the reader count in cnt_and_flag.
WRITER_ACTIVE == 1
READER_INCR == 2

WriterActive(c) == c % READER_INCR = WRITER_ACTIVE

Readers(c) == c \div READER_INCR

\* A writer is queued or active.
WritersPending == write_requests # write_completions

\* isc_rwlock_init(rwl, read_quota, write_quota): nobody holds the lock.
RwStart(q) ==
    /\ cnt_and_flag = 0
    /\ write_requests = 0
    /\ write_completions = 0
    /\ write_granted = 0
    /\ readers_waiting = 0
    /\ write_quota = q
    /\ lpc = [t \in Lockers |-> "idle"]
    /\ ticket = [t \in Lockers |-> 0]
    /\ prevcnt = [t \in Lockers |-> 0]
    /\ wakeup_writers = [t \in Lockers |-> FALSE]
    /\ asleep = [t \in Lockers |-> "none"]
    /\ held = [t \in Lockers |-> "none"]
    /\ lresult = [t \in Lockers |-> "none"]
    /\ lops = 0

RwInit == \E q \in 1 .. MaxQuota : RwStart(q)

\* A thread may begin a call that takes the lock or changes its mode (the model
\* bounds their number; a release is always possible).
RwIdle(t) == lpc[t] = "idle" /\ lops < MaxLockOps

\* BROADCAST(cond): every thread asleep on cond wakes.
Broadcast(cond) == [u \in Lockers |-> IF asleep[u] = cond THEN "none" ELSE asleep[u]]

\* - - - - - - - - - - - - - - - - - - - - - - - isc_rwlock_lock(rwl, read)

\* A reader that never looks for queued writers.
RdSlowPathNever == FALSE

\* A reader that arrives while a writer is queued or active takes the slow
\* path even if no writer holds the lock.
RdSlowPath == WritersPending

RdEnter(t) ==
    /\ lpc[t] = "idle" /\ held[t] = "none"
    /\ lpc' = [lpc EXCEPT ![t] = IF RdSlowPath THEN "rd_queue" ELSE "rd_incr"]
    /\ lresult' = [lresult EXCEPT ![t] = "none"]
    /\ UNCHANGED <<cnt_and_flag, write_requests, write_completions, write_granted,
                   readers_waiting, write_quota, ticket, prevcnt, wakeup_writers,
                   asleep, held, qvars, rvars>>

\* A call of lock(read) that counts against MaxLockOps.
RdArrive(t) == RwIdle(t) /\ RdEnter(t) /\ lops' = lops + 1

\* A call of lock(read) by a reader that may call without end.
RdArriveAgain(t) == RdEnter(t) /\ lops' = lops

\* Slow path, under the mutex: readers_waiting++ and WAIT(readable) if a
\* writer is still queued or active.
RdQueue(t) ==
    /\ lpc[t] = "rd_queue"
    /\ IF WritersPending
       THEN /\ readers_waiting' = readers_waiting + 1
            /\ asleep' = [asleep EXCEPT ![t] = "readable"]
            /\ lpc' = [lpc EXCEPT ![t] = "rd_queued"]
       ELSE /\ UNCHANGED <<readers_waiting, asleep>>
            /\ lpc' = [lpc EXCEPT ![t] = "rd_incr"]
    /\ UNCHANGED <<cnt_and_flag, write_requests, write_completions, write_granted,
                   write_quota, ticket, prevcnt, wakeup_writers, held, lresult,
                   lops, qvars, rvars>>

\* Woken from readable: readers_waiting--, and on to the atomic claim.
RdQueued(t) ==
    /\ lpc[t] = "rd_queued" /\ asleep[t] = "none"
    /\ readers_waiting' = readers_waiting - 1
    /\ lpc' = [lpc EXCEPT ![t] = "rd_incr"]
    /\ UNCHANGED <<cnt_and_flag, write_requests, write_completions, write_granted,
                   write_quota, ticket, prevcnt, wakeup_writers, asleep, held,
                   lresult, lops, qvars, rvars>>

\* The atomic claim: add one reader to cnt_and_flag.
RdIncr(t) ==
    /\ lpc[t] = "rd_incr"
    /\ cnt_and_flag' = cnt_and_flag + READER_INCR
    /\ prevcnt' = [prevcnt EXCEPT ![t] = cnt_and_flag]
    /\ lpc' = [lpc EXCEPT ![t] = "rd_test"]
    /\ UNCHANGED <<write_requests, write_completions, write_granted,
                   readers_waiting, write_quota, ticket, wakeup_writers, asleep,
                   held, lresult, lops, qvars, rvars>>

\* If the writer-active bit is observed set the reader falls back to the slow
\* path, else the lock is its own.
RdTest(t) ==
    /\ lpc[t] = "rd_test"
    /\ lpc' = [lpc EXCEPT ![t] = IF WriterActive(cnt_and_flag) THEN "rd_wait"
                                                               ELSE "rd_grant"]
    /\ UNCHANGED <<cnt_and_flag, write_requests, write_completions, write_granted,
                   readers_waiting, write_quota, ticket, prevcnt, wakeup_writers,
                   asleep, held, lresult, lops, qvars, rvars>>

\* Slow path, under the mutex: readers_waiting++ and WAIT(readable) until the
\* writer bit clears.
RdWait(t) ==
    /\ lpc[t] = "rd_wait"
    /\ IF WriterActive(cnt_and_flag)
       THEN /\ readers_waiting' = readers_waiting + 1
            /\ asleep' = [asleep EXCEPT ![t] = "readable"]
            /\ lpc' = [lpc EXCEPT ![t] = "rd_waiting"]
       ELSE /\ UNCHANGED <<readers_waiting, asleep>>
            /\ lpc' = [lpc EXCEPT ![t] = "rd_test"]
    /\ UNCHANGED <<cnt_and_flag, write_requests, write_completions, write_granted,
                   write_quota, ticket, prevcnt, wakeup_writers, held, lresult,
                   lops, qvars, rvars>>

\* Woken from readable: readers_waiting--, and the bit is tested again.
RdWaiting(t) ==
    /\ lpc[t] = "rd_waiting" /\ asleep[t] = "none"
    /\ readers_waiting' = readers_waiting - 1
    /\ lpc' = [lpc EXCEPT ![t] = "rd_test"]
    /\ UNCHANGED <<cnt_and_flag, write_requests, write_completions, write_granted,
                   write_quota, ticket, prevcnt, wakeup_writers, asleep, held,
                   lresult, lops, qvars, rvars>>

\* The reader has the lock: write_granted = 0, and the call returns.
RdGrant(t) ==
    /\ lpc[t] = "rd_grant"
    /\ write_granted' = 0
    /\ held' = [held EXCEPT ![t] = "read"]
    /\ lresult' = [lresult EXCEPT ![t] = "success"]
    /\ lpc' = [lpc EXCEPT ![t] = "idle"]
    /\ UNCHANGED <<cnt_and_flag, write_requests, write_completions,
                   readers_waiting, write_quota, ticket, prevcnt, wakeup_writers,
                   asleep, lops, qvars, rvars>>

\* - - - - - - - - - - - - - - - - - - - - - - isc_rwlock_lock(rwl, write)

\* The writer takes its ticket: an atomic increment of write_requests.
WrTicket(t) ==
    /\ RwIdle(t) /\ held[t] = "none"
    /\ ticket' = [ticket EXCEPT ![t] = write_requests]
    /\ write_requests' = write_requests + 1
    /\ lpc' = [lpc EXCEPT ![t] = "wr_turn"]
    /\ lresult' = [lresult EXCEPT ![t] = "none"]
    /\ lops' = lops + 1
    /\ UNCHANGED <<cnt_and_flag, write_completions, write_granted,
                   readers_waiting, write_quota, prevcnt, wakeup_writers, asleep,
                   held, qvars, rvars>>

\* A writer that does not wait for its turn.
WrTurnAny(c, k) == TRUE

\* It is the writer's turn when as many writes have completed as were
\* requested before its own.
WrTurnCome(c, k) == c = k

\* Under the mutex: WAIT(writeable) until write_completions equals the ticket.
WrTurn(t) ==
    /\ lpc[t] = "wr_turn" /\ asleep[t] = "none"
    /\ IF ~WrTurnCome(write_completions, ticket[t])
       THEN asleep' = [asleep EXCEPT ![t] = "writeable"] /\ lpc' = lpc
       ELSE asleep' = asleep /\ lpc' = [lpc EXCEPT ![t] = "wr_claim"]
    /\ UNCHANGED <<cnt_and_flag, write_requests, write_completions, write_granted,
                   readers_waiting, write_quota, ticket, prevcnt, wakeup_writers,
                   held, lresult, lops, qvars, rvars>>

\* A claim that does not look at cnt_and_flag.
WrClaimBlind(c) == TRUE

\* The writer may set the bit when no reader and no writer is counted.
WrClaimable(c) == c = 0

\* Its turn has come: atomically set the writer-active bit if the reader count
\* is zero and no writer is active.
WrClaim(t) ==
    /\ lpc[t] = "wr_claim"
    /\ IF WrClaimable(cnt_and_flag)
       THEN /\ cnt_and_flag' = cnt_and_flag + WRITER_ACTIVE
            /\ lpc' = [lpc EXCEPT ![t] = "wr_grant"]
       ELSE /\ cnt_and_flag' = cnt_and_flag
            /\ lpc' = [lpc EXCEPT ![t] = "wr_drain"]
    /\ UNCHANGED <<write_requests, write_completions, write_granted,
                   readers_waiting, write_quota, ticket, prevcnt, wakeup_writers,
                   asleep, held, lresult, lops, qvars, rvars>>

\* Under the mutex: WAIT(writeable) until the reader count reaches zero.
WrDrain(t) ==
    /\ lpc[t] = "wr_drain" /\ asleep[t] = "none"
    /\ IF cnt_and_flag # 0
       THEN asleep' = [asleep EXCEPT ![t] = "writeable"]
            /\ lpc' = [lpc EXCEPT ![t] = "wr_draining"]
       ELSE asleep' = asleep /\ lpc' = [lpc EXCEPT ![t] = "wr_claim"]
    /\ UNCHANGED <<cnt_and_flag, write_requests, write_completions, write_granted,
                   readers_waiting, write_quota, ticket, prevcnt, wakeup_writers,
                   held, lresult, lops, qvars, rvars>>

\* Woken from writeable: the claim is tried again.
WrDraining(t) ==
    /\ lpc[t] = "wr_draining" /\ asleep[t] = "none"
    /\ lpc' = [lpc EXCEPT ![t] = "wr_claim"]
    /\ UNCHANGED <<cnt_and_flag, write_requests, write_completions, write_granted,
                   readers_waiting, write_quota, ticket, prevcnt, wakeup_writers,
                   asleep, held, lresult, lops, qvars, rvars>>

\* The writer has the lock: write_granted++, and the call returns.
WrGrant(t) ==
    /\ lpc[t] = "wr_grant"
    /\ write_granted' = write_granted + 1
    /\ held' = [held EXCEPT ![t] = "write"]
    /\ lresult' = [lresult EXCEPT ![t] = "success"]
    /\ lpc' = [lpc EXCEPT ![t] = "idle"]
    /\ UNCHANGED <<cnt_and_flag, write_requests, write_completions,
                   readers_waiting, write_quota, ticket, prevcnt, wakeup_writers,
                   asleep, lops, qvars, rvars>>

\* - - - - - - - - - - - - - - - - - - - - - isc_rwlock_unlock(rwl, read)

\* The symmetric atomic subtraction.
RdRelease(t) ==
    /\ lpc[t] = "idle" /\ held[t] = "read"
    /\ cnt_and_flag' = cnt_and_flag - READER_INCR
    /\ prevcnt' = [prevcnt EXCEPT ![t] = cnt_and_flag]
    /\ held' = [held EXCEPT ![t] = "none"]
    /\ lpc' = [lpc EXCEPT ![t] = "ru_last"]
    /\ lresult' = [lresult EXCEPT ![t] = "none"]
    /\ UNCHANGED <<write_requests, write_completions, write_granted,
                   readers_waiting, write_quota, ticket, wakeup_writers, asleep,
                   lops, qvars, rvars>>

\* The last reader out wakes the writers if one is queued.
RdLast(t) ==
    /\ lpc[t] = "ru_last"
    /\ lpc' = [lpc EXCEPT ![t] = IF prevcnt[t] = READER_INCR /\ WritersPending
                                 THEN "ru_wake" ELSE "idle"]
    /\ lresult' = [lresult EXCEPT ![t] = IF prevcnt[t] = READER_INCR /\ WritersPending
                                         THEN "none" ELSE "success"]
    /\ UNCHANGED <<cnt_and_flag, write_requests, write_completions, write_granted,
                   readers_waiting, write_quota, ticket, prevcnt, wakeup_writers,
                   asleep, held, lops, qvars, rvars>>

\* Under the mutex: BROADCAST(writeable).
RdWake(t) ==
    /\ lpc[t] = "ru_wake"
    /\ asleep' = Broadcast("writeable")
    /\ lresult' = [lresult EXCEPT ![t] = "success"]
    /\ lpc' = [lpc EXCEPT ![t] = "idle"]
    /\ UNCHANGED <<cnt_and_flag, write_requests, write_completions, write_granted,
                   readers_waiting, write_quota, ticket, prevcnt, wakeup_writers,
                   held, lops, qvars, rvars>>

\* - - - - - - - - - - - - - - - - - - - - isc_rwlock_unlock(rwl, write)

\* On release: atomically clear the writer-active bit ...
WrRelease(t) ==
    /\ lpc[t] = "idle" /\ held[t] = "write"
    /\ cnt_and_flag' = cnt_and_flag - WRITER_ACTIVE
    /\ held' = [held EXCEPT ![t] = "none"]
    /\ lpc' = [lpc EXCEPT ![t] = "wu_complete"]
    /\ lresult' = [lresult EXCEPT ![t] = "none"]
    /\ UNCHANGED <<write_requests, write_completions, write_granted,
                   readers_waiting, write_quota, ticket, prevcnt, wakeup_writers,
                   asleep, lops, qvars, rvars>>

\* ... and atomically increment write_completions.
WrComplete(t) ==
    /\ lpc[t] = "wu_complete"
    /\ write_completions' = write_completions + 1
    /\ lpc' = [lpc EXCEPT ![t] = "wu_quota"]
    /\ UNCHANGED <<cnt_and_flag, write_requests, write_granted, readers_waiting,
                   write_quota, ticket, prevcnt, wakeup_writers, asleep, held,
                   lresult, lops, qvars, rvars>>

\* Readers are woken subject to the quota: when write_granted has reached
\* write_quota, when no writer is queued, or when readers are counted already.
WrQuota(t) ==
    /\ lpc[t] = "wu_quota"
    /\ wakeup_writers' = [wakeup_writers EXCEPT ![t] = TRUE]
    /\ lpc' = [lpc EXCEPT ![t] =
                  IF \/ write_granted >= write_quota
                     \/ ~WritersPending
                     \/ Readers(cnt_and_flag) # 0
                  THEN "wu_readers" ELSE "wu_writers"]
    /\ UNCHANGED <<cnt_and_flag, write_requests, write_completions, write_granted,
                   readers_waiting, write_quota, ticket, prevcnt, asleep, held,
                   lresult, lops, qvars, rvars>>

\* Under the mutex: if (readers_waiting > 0) BROADCAST(readable), and then the
\* writers are not woken.
WrWakeReaders(t) ==
    /\ lpc[t] = "wu_readers"
    /\ IF readers_waiting > 0
       THEN /\ asleep' = Broadcast("readable")
            /\ wakeup_writers' = [wakeup_writers EXCEPT ![t] = FALSE]
       ELSE UNCHANGED <<asleep, wakeup_writers>>
    /\ lpc' = [lpc EXCEPT ![t] = "wu_writers"]
    /\ UNCHANGED <<cnt_and_flag, write_requests, write_completions, write_granted,
                   readers_waiting, write_quota, ticket, prevcnt, held, lresult,
                   lops, qvars, rvars>>

\* Under the mutex: BROADCAST(writeable) if a writer is queued and the readers
\* were not woken.
WrWakeWriters(t) ==
    /\ lpc[t] = "wu_writers"
    /\ asleep' = IF WritersPending /\ wakeup_writers[t]
                 THEN Broadcast("writeable") ELSE asleep
    /\ lresult' = [lresult EXCEPT ![t] = "success"]
    /\ lpc' = [lpc EXCEPT ![t] = "idle"]
    /\ UNCHANGED <<cnt_and_flag, write_requests, write_completions, write_granted,
                   readers_waiting, write_quota, ticket, prevcnt, wakeup_writers,
                   held, lops, qvars, rvars>>

\* - - - - - - - - - - - - - - - - - - - - - isc_rwlock_trylock(rwl, read)

\* A reader fails at once if a writer is queued or active.
TryRdArrive(t) ==
    /\ RwIdle(t) /\ held[t] = "none"
    /\ lpc' = [lpc EXCEPT ![t] = IF WritersPending THEN "idle" ELSE "tr_incr"]
    /\ lresult' = [lresult EXCEPT ![t] = IF WritersPending THEN "busy" ELSE "none"]
    /\ lops' = lops + 1
    /\ UNCHANGED <<cnt_and_flag, write_requests, write_completions, write_granted,
                   readers_waiting, write_quota, ticket, prevcnt, wakeup_writers,
                   asleep, held, qvars, rvars>>

\* The atomic claim; the reader has the lock if the writer-active bit was clear.
TryRdIncr(t) ==
    /\ lpc[t] = "tr_incr"
    /\ cnt_and_flag' = cnt_and_flag + READER_INCR
    /\ IF WriterActive(cnt_and_flag)
       THEN /\ lpc' = [lpc EXCEPT ![t] = "tr_cancel"]
            /\ UNCHANGED <<held, lresult>>
       ELSE /\ lpc' = [lpc EXCEPT ![t] = "idle"]
            /\ held' = [held EXCEPT ![t] = "read"]
            /\ lresult' = [lresult EXCEPT ![t] = "success"]
    /\ UNCHANGED <<write_requests, write_completions, write_granted,
                   readers_waiting, write_quota, ticket, prevcnt, wakeup_writers,
                   asleep, lops, qvars, rvars>>

\* A writer is active: the claim is cancelled.
TryRdCancel(t) ==
    /\ lpc[t] = "tr_cancel"
    /\ cnt_and_flag' = cnt_and_flag - READER_INCR
    /\ prevcnt' = [prevcnt EXCEPT ![t] = cnt_and_flag]
    /\ lpc' = [lpc EXCEPT ![t] = "tr_last"]
    /\ UNCHANGED <<write_requests, write_completions, write_granted,
                   readers_waiting, write_quota, ticket, wakeup_writers, asleep,
                   held, lresult, lops, qvars, rvars>>

\* Writers held up by the cancelled claim are woken; the call returns busy.
TryRdLast(t) ==
    /\ lpc[t] = "tr_last"
    /\ asleep' = IF prevcnt[t] = READER_INCR /\ WritersPending
                 THEN Broadcast("writeable") ELSE asleep
    /\ lresult' = [lresult EXCEPT ![t] = "busy"]
    /\ lpc' = [lpc EXCEPT ![t] = "idle"]
    /\ UNCHANGED <<cnt_and_flag, write_requests, write_completions, write_granted,
                   readers_waiting, write_quota, ticket, prevcnt, wakeup_writers,
                   held, lops, qvars, rvars>>

\* - - - - - - - - - - - - - - - - - - - - isc_rwlock_trylock(rwl, write)

\* A writer that got the bit without a ticket and is not counted as queued.
JumpQueueUncounted(c) == c

\* A writer that got the bit without a ticket counts as a writer in progress:
\* write_completions--, which its release undoes.
JumpQueue(c) == c - 1

\* The writer sets the bit without queueing, or fails.
TryWrClaim(t) ==
    /\ RwIdle(t) /\ held[t] = "none"
    /\ lops' = lops + 1
    /\ IF WrClaimable(cnt_and_flag)
       THEN /\ cnt_and_flag' = cnt_and_flag + WRITER_ACTIVE
            /\ lpc' = [lpc EXCEPT ![t] = "tw_jump"]
            /\ lresult' = [lresult EXCEPT ![t] = "none"]
       ELSE /\ cnt_and_flag' = cnt_and_flag
            /\ lpc' = lpc
            /\ lresult' = [lresult EXCEPT ![t] = "busy"]
    /\ UNCHANGED <<write_requests, write_completions, write_granted,
                   readers_waiting, write_quota, ticket, prevcnt, wakeup_writers,
                   asleep, held, qvars, rvars>>

\* It counts as a writer in progress: write_completions--, write_granted++.
TryWrJump(t) ==
    /\ lpc[t] = "tw_jump"
    /\ write_completions' = JumpQueue(write_completions)
    /\ write_granted' = write_granted + 1
    /\ held' = [held EXCEPT ![t] = "write"]
    /\ lresult' = [lresult EXCEPT ![t] = "success"]
    /\ lpc' = [lpc EXCEPT ![t] = "idle"]
    /\ UNCHANGED <<cnt_and_flag, write_requests, readers_waiting, write_quota,
                   ticket, prevcnt, wakeup_writers, asleep, lops, qvars, rvars>>

\* - - - - - - - - - - - - - - - - - - - - - - isc_rwlock_tryupgrade(rwl)

\* An upgrade that does not require the caller to be the only reader.
UpgradableAny(c) == ~WriterActive(c) /\ Readers(c) >= 1

\* The caller is the sole reader: one reader counted, no writer active.
Upgradable(c) == c = READER_INCR

\* One atomic exchange of "one reader" for "writer active"; otherwise the call
\* fails and nothing is written.
TryUpgrade(t) ==
    /\ RwIdle(t) /\ held[t] = "read"
    /\ lops' = lops + 1
    /\ IF Upgradable(cnt_and_flag)
       THEN /\ cnt_and_flag' = cnt_and_flag - READER_INCR + WRITER_ACTIVE
            /\ held' = [held EXCEPT ![t] = "write"]
            /\ lpc' = [lpc EXCEPT ![t] = "up_jump"]
            /\ lresult' = [lresult EXCEPT ![t] = "none"]
       ELSE /\ UNCHANGED <<cnt_and_flag, held, lpc>>
            /\ lresult' = [lresult EXCEPT ![t] = "busy"]
    /\ UNCHANGED <<write_requests, write_completions, write_granted,
                   readers_waiting, write_quota, ticket, prevcnt, wakeup_writers,
                   asleep, qvars, rvars>>

\* The upgraded thread counts as a writer in progress: write_completions--.
UpgradeJump(t) ==
    /\ lpc[t] = "up_jump"
    /\ write_completions' = JumpQueue(write_completions)
    /\ lresult' = [lresult EXCEPT ![t] = "success"]
    /\ lpc' = [lpc EXCEPT ![t] = "idle"]
    /\ UNCHANGED <<cnt_and_flag, write_requests, write_granted, readers_waiting,
                   write_quota, ticket, prevcnt, wakeup_writers, asleep, held,
                   lops, qvars, rvars>>

\* - - - - - - - - - - - - - - - - - - - - - - isc_rwlock_downgrade(rwl)

\* A downgrade that gives the writer bit up before it counts as a reader.
DowngradeReleaseFirst(c) == c - WRITER_ACTIVE

\* The writer becomes a counted reader while the bit is still set.
DowngradeFirst(c) == c + READER_INCR

\* The second atomic step of the downgrade, whichever the first was.
DowngradeSecond(c) == IF WriterActive(c) THEN c - WRITER_ACTIVE ELSE c + READER_INCR

DowngradeEnter(t) ==
    /\ RwIdle(t) /\ held[t] = "write"
    /\ cnt_and_flag' = DowngradeFirst(cnt_and_flag)
    /\ lpc' = [lpc EXCEPT ![t] = "dg_clear"]
    /\ lresult' = [lresult EXCEPT ![t] = "none"]
    /\ lops' = lops + 1
    /\ UNCHANGED <<write_requests, write_completions, write_granted,
                   readers_waiting, write_quota, ticket, prevcnt, wakeup_writers,
                   asleep, held, qvars, rvars>>

\* Then the writer-active bit is cleared: the thread holds the lock for reading.
DowngradeClear(t) ==
    /\ lpc[t] = "dg_clear"
    /\ cnt_and_flag' = DowngradeSecond(cnt_and_flag)
    /\ held' = [held EXCEPT ![t] = "read"]
    /\ lpc' = [lpc EXCEPT ![t] = "dg_complete"]
    /\ UNCHANGED <<write_requests, write_completions, write_granted,
                   readers_waiting, write_quota, ticket, prevcnt, wakeup_writers,
                   asleep, lresult, lops, qvars, rvars>>

\* The write is complete: write_completions++.
DowngradeComplete(t) ==
    /\ lpc[t] = "dg_complete"
    /\ write_completions' = write_completions + 1
    /\ lpc' = [lpc EXCEPT ![t] = "dg_wake"]
    /\ UNCHANGED <<cnt_and_flag, write_requests, write_granted, readers_waiting,
                   write_quota, ticket, prevcnt, wakeup_writers, asleep, held,
                   lresult, lops, qvars, rvars>>

\* Under the mutex: waiting readers are resumed.
DowngradeWake(t) ==
    /\ lpc[t] = "dg_wake"
    /\ asleep' = IF readers_waiting > 0 THEN Broadcast("readable") ELSE asleep
    /\ lresult' = [lresult EXCEPT ![t] = "success"]
    /\ lpc' = [lpc EXCEPT ![t] = "idle"]
    /\ UNCHANGED <<cnt_and_flag, write_requests, write_completions, write_granted,
                   readers_waiting, write_quota, ticket, prevcnt, wakeup_writers,
                   held, lops, qvars, rvars>>

\* The calls of one thread.
isc_rwlock_lock(t) ==
    \/ RdArrive(t) \/ RdQueue(t) \/ RdQueued(t) \/ RdIncr(t) \/ RdTest(t)
    \/ RdWait(t) \/ RdWaiting(t) \/ RdGrant(t)
    \/ WrTicket(t) \/ WrTurn(t) \/ WrClaim(t) \/ WrDrain(t) \/ WrDraining(t)
    \/ WrGrant(t)

isc_rwlock_unlock(t) ==
    \/ RdRelease(t) \/ RdLast(t) \/ RdWake(t)
    \/ WrRelease(t) \/ WrComplete(t) \/ WrQuota(t) \/ WrWakeReaders(t)
    \/ WrWakeWriters(t)

isc_rwlock_trylock(t) ==
    \/ TryRdArrive(t) \/ TryRdIncr(t) \/ TryRdCancel(t) \/ TryRdLast(t)
    \/ TryWrClaim(t) \/ TryWrJump(t)

isc_rwlock_tryupgrade(t) == TryUpgrade(t) \/ UpgradeJump(t)

isc_rwlock_downgrade(t) ==
    \/ DowngradeEnter(t) \/ DowngradeClear(t) \/ DowngradeComplete(t)
    \/ DowngradeWake(t)

\* ---------------------------------------------------------- specifications

\* Threads that only push and pop.
PushPopNext == \E t \in Threads : ISC_QUEUE_PUSH(t) \/ ISC_QUEUE_POP(t)

\* Threads that push, pop, and unlink elements that are linked.
LinkedNext ==
    \E t \in Threads :
        ISC_QUEUE_PUSH(t) \/ ISC_QUEUE_POP(t) \/ ISC_QUEUE_UNLINK(t)

\* Threads that call every operation of the queue.
QueueNext ==
    \E t \in Threads :
        \/ ISC_QUEUE_PUSH(t) \/ ISC_QUEUE_POP(t)
        \/ ISC_QUEUE_UNLINK(t) \/ ISC_QUEUE_UNLINKIFLINKED(t)

\* Every thread calls the queue, on the first NPool elements; the history is kept.
PushPopInit ==
    /\ QueueInit /\ RefStart(0) /\ RwStart(1)
    /\ active = Threads /\ pool = 1 .. NPool /\ checkinit = FALSE /\ logging = TRUE

SpecPushPop == PushPopInit /\ [][PushPopNext]_vars

\* Every thread calls the queue, on every element; no history is kept.
FullInit ==
    /\ QueueInit /\ RefStart(0) /\ RwStart(1)
    /\ active = Threads /\ pool = Elts /\ checkinit = FALSE /\ logging = FALSE

SpecLinked == FullInit /\ [][LinkedNext]_vars

SpecQueue == FullInit /\ [][QueueNext]_vars

\* One thread alone on the queue.
SoloInit ==
    /\ QueueInit /\ RefStart(0) /\ RwStart(1)
    /\ active = {1} /\ pool = Elts /\ checkinit = FALSE /\ logging = TRUE

SpecSolo == SoloInit /\ [][QueueNext]_vars

\* One thread that also pushes elements that are linked and destroys the
\* queue whatever it holds, in a build with and in a build without
\* ISC_QUEUE_CHECKINIT.
MisuseInit ==
    /\ QueueInit /\ RefStart(0) /\ RwStart(1)
    /\ active = {1} /\ pool = Elts /\ checkinit \in BOOLEAN /\ logging = FALSE

MisuseNext ==
    \E t \in Threads :
        \/ ISC_QUEUE_PUSH(t) \/ ISC_QUEUE_POP(t)
        \/ ISC_QUEUE_UNLINK(t) \/ ISC_QUEUE_UNLINKIFLINKED(t)
        \/ \E e \in Elts : PushLinked(t, e)
        \/ ISC_QUEUE_DESTROY(t)

SpecMisuse == MisuseInit /\ [][MisuseNext]_vars

\* The statements of the four macros after the first: what a thread inside a
\* call does when it is scheduled.
QueueProgress(t) ==
    \/ PushLockHead(t) \/ PushRelockTail(t) \/ PushLink(t) \/ PushTailNext(t)
    \/ PushSetTail(t) \/ PushSetHead(t)
    \/ PopTest(t) \/ PopLockTail(t) \/ PopRetest(t) \/ PopAdvance(t)
    \/ PopUnlock(t) \/ PopMark(t)
    \/ UnlinkLockTail(t) \/ UnlinkBody(t) \/ UnlinkUnlock(t) \/ UnlinkMark(t)
    \/ UnlinkIfLockHead(t) \/ UnlinkIfLockTail(t) \/ UnlinkIfBody(t)
    \/ UnlinkIfUnlock(t) \/ UnlinkIfMark(t)

\* Every thread calls every operation, on the first NPool elements; a thread
\* inside a call is scheduled again.
PoolInit ==
    /\ QueueInit /\ RefStart(0) /\ RwStart(1)
    /\ active = Threads /\ pool = 1 .. NPool /\ checkinit = FALSE /\ logging = FALSE

QueueFairness == \A t \in Threads : WF_vars(QueueProgress(t))

SpecQueueFair == PoolInit /\ [][QueueNext]_vars /\ QueueFairness

\* The queue after ISC_QUEUE_PUSH(old) on an initialised queue has returned:
\* head = tail = old, old->link.prev = old->link.next = NULL.
QueueHolding(old) ==
    /\ head = old
    /\ tail = old
    /\ headlock = NOBODY
    /\ taillock = NOBODY
    /\ prev = [e \in Elts |-> IF e = old THEN NULL ELSE NOTLINKED]
    /\ next = [e \in Elts |-> IF e = old THEN NULL ELSE NOTLINKED]
    /\ pc = [t \in Threads |-> "idle"]
    /\ elt = [t \in Threads |-> NULL]
    /\ headlocked = [t \in Threads |-> FALSE]
    /\ fault = "none"
    /\ destroyed = FALSE
    /\ hist = <<>>

\* A queue of one element on which two more calls are made, by any threads;
\* the history of the two calls is kept.
RaceInit ==
    /\ \E old \in Elts : QueueHolding(old)
    /\ nops = MaxOps - 2
    /\ RefStart(0) /\ RwStart(1)
    /\ active = Threads /\ pool = Elts /\ checkinit = FALSE /\ logging = TRUE

SpecRace == RaceInit /\ [][PushPopNext]_vars

\* No thread uses the queue.
QueueIdle ==
    /\ QueueInit
    /\ active = {} /\ pool = {} /\ checkinit = FALSE /\ logging = FALSE

\* One thread calls the macros of every variant side by side.
RefSeqInit == QueueIdle /\ RefInit /\ RwStart(1)

RefSeqNext ==
    \/ SeqIncrement0 \/ SeqIncrement \/ SeqDecrement \/ SeqCurrent \/ SeqDestroy
    \/ \E n \in 0 .. MaxInit : SeqInit(n)

SpecRefSeq == RefSeqInit /\ [][RefSeqNext]_vars

\* Threads call the macros that change the count, on the counters of a
\* threaded build.
RefConcInit == QueueIdle /\ RefInit /\ RwStart(1)

RefConcNext ==
    \E t \in Threads :
        \/ \E op \in CountOps : AtomicFetch(t, op) \/ MutexLock(t, op)
        \/ AtomicRequire(t) \/ MutexBody(t) \/ MutexUnlock(t)

SpecRefConc == RefConcInit /\ [][RefConcNext]_vars

\* NThreads threads that call every function of the lock.
RwNext ==
    \E t \in Threads :
        \/ isc_rwlock_lock(t) \/ isc_rwlock_unlock(t) \/ isc_rwlock_trylock(t)
        \/ isc_rwlock_tryupgrade(t) \/ isc_rwlock_downgrade(t)

RwlockInit == QueueIdle /\ RefStart(0) /\ RwInit

SpecRwlock == RwlockInit /\ [][RwNext]_vars

\* The steps of lock(read), lock(write) and unlock that follow the first one,
\* and the releases: what a scheduled thread does next.
RwProgress(t) ==
    \/ RdQueue(t) \/ RdQueued(t) \/ RdIncr(t) \/ RdTest(t) \/ RdWait(t)
    \/ RdWaiting(t) \/ RdGrant(t)
    \/ WrTurn(t) \/ WrClaim(t) \/ WrDrain(t) \/ WrDraining(t) \/ WrGrant(t)
    \/ isc_rwlock_unlock(t)

\* One thread takes the lock for writing, the others for reading.
QuotaWriter == NLockers

QuotaReaders == Lockers \ {QuotaWriter}

\* The readers may arrive without end; the write locks are counted.
RwQuotaNext ==
    \/ \E t \in QuotaReaders : RdArriveAgain(t)
    \/ WrTicket(QuotaWriter)
    \/ \E t \in Lockers : RwProgress(t)

\* A lock initialised with write_quota = 1.
RwQuotaInit == QueueIdle /\ RefStart(0) /\ RwStart(1)

\* Every thread that is inside a call or holds the lock is scheduled again.
RwFairness == \A t \in Lockers : WF_vars(RwProgress(t))

SpecRwQuota == RwQuotaInit /\ [][RwQuotaNext]_vars /\ RwFairness

\* ------------------------------------------------------ claims: the queue

Quiescent == \A t \in Threads : pc[t] = "idle"

Events == 1 .. Len(hist)

Pushes == {i \in Events : hist[i].op = "push"}

\* The pops that returned an element.
Pops == {j \in Events : hist[j].op = "pop" /\ hist[j].elt # NULL}

PoppedCount(i) == Cardinality({j \in Pops : hist[j].id = i})

QueuedCount(i) == Cardinality({k \in 1 .. Len(Chain) : StampOf(Chain[k]) = i})

\* Every push is accounted for once: returned by one pop, or once in the queue.
NothingLostOrDuplicated ==
    /\ \A i \in Pushes : PoppedCount(i) + QueuedCount(i) = 1
    /\ \A j \in Pops : hist[j].id \in Pushes /\ hist[hist[j].id].elt = hist[j].elt
    /\ \A k \in 1 .. Len(Chain) : StampOf(Chain[k]) \in Pushes

\* A consumer receives one producer's elements in the order they were pushed.
ProducerOrder ==
    \A j1, j2 \in Pops :
        /\ j1 < j2
        /\ hist[j1].thr = hist[j2].thr
        /\ hist[hist[j1].id].thr = hist[hist[j2].id].thr
        => hist[j1].id < hist[j2].id

\* C1: under any interleaving of push and pop, once every call has returned,
\* each pushed element was returned by exactly one pop or is reachable from
\* head exactly once, nothing else was returned or is queued, and the pops of
\* one thread return the elements of one pushing thread in push order.
C1_PushPopMultisetAndOrder ==
    /\ ProducerOrder
    /\ \A j \in Pops : hist[j].id \in Pushes
    /\ Quiescent => NothingLostOrDuplicated

\* C1 witness: all calls have returned, one thread has popped two elements
\* that one other thread pushed.
C1_Witness ==
    /\ Quiescent
    /\ \E j1, j2 \in Pops :
        /\ j1 < j2
        /\ hist[j1].thr = hist[j2].thr
        /\ hist[j1].id \in Pushes /\ hist[j2].id \in Pushes
        /\ hist[hist[j1].id].thr = hist[hist[j2].id].thr
        /\ hist[hist[j1].id].thr # hist[j1].thr

\* C2: the step of unlink_if_linked made under both locks on an element that
\* is not reachable from head changes neither head nor tail nor the links of
\* any other element.
C2_UnlinkIfNotQueuedIsNoOp ==
    [][\A t \in Threads :
          /\ pc[t] = "unlinkif_body"
          /\ pc'[t] = "unlinkif_unlock"
          /\ ~Reachable(elt[t])
          => /\ head' = head
             /\ tail' = tail
             /\ \A e \in Elts \ {elt[t]} : next'[e] = next[e] /\ prev'[e] = prev[e]
      ]_vars

EndsConsistent ==
    /\ head = NULL <=> tail = NULL
    /\ Valid(head) => prev[head] = NULL
    /\ Valid(tail) => next[tail] = NULL

PopFoundEmpty(t) == pc[t] \in {"pop_test", "pop_unlock", "pop_mark"} /\ elt[t] = NULL

PopStep(t) == PopTest(t) \/ PopUnlock(t) \/ PopMark(t)

\* C9: a pop that reads head == NULL finds tail NULL too, holds no tail lock,
\* is never blocked (its next statement can always run), raises no fault,
\* changes neither head nor tail, and returns NULL.
C9_PopOnEmpty ==
    /\ [](\A t \in Threads :
            PopFoundEmpty(t) => taillock # t /\ fault = "none" /\ ENABLED PopStep(t))
    /\ [][\A t \in Threads :
            /\ (pc[t] = "idle" /\ pc'[t] = "pop_test" /\ head = NULL)
                  => tail = NULL /\ elt'[t] = NULL
            /\ (PopFoundEmpty(t) /\ pc'[t] # pc[t])
                  => /\ head' = head /\ tail' = tail /\ fault' = "none"
                     /\ \/ PopFoundEmpty(t)'
                        \/ /\ pc'[t] = "idle"
                           /\ hist' = Append(hist, Event("pop", t, NULL, 0, FALSE))
      ]_vars

\* C9 witness: a pop found the queue empty while another thread is pushing.
C9_Witness ==
    \E t, u \in Threads :
        PopFoundEmpty(t) /\ pc[t] = "pop_mark" /\ pc[u] = "push_lockhead"

\* C10: alone on the queue, push(e) on an empty queue followed by pop() returns
\* e, leaves head and tail NULL (the queue is empty) and leaves e not linked,
\* which is what a push requires of it.
C10_PushThenPop ==
    LET n == Len(hist) IN
        /\ pc[1] = "idle" /\ n >= 2
        /\ hist[n].op = "pop" /\ hist[n - 1].op = "push" /\ hist[n - 1].empty
        => /\ hist[n].elt = hist[n - 1].elt
           /\ ISC_QUEUE_EMPTY /\ head = NULL /\ tail = NULL
           /\ prev[hist[n - 1].elt] = NOTLINKED
           /\ next[hist[n - 1].elt] = NOTLINKED
           /\ ~ISC_QLINK_LINKED(hist[n - 1].elt)

\* C10 witness: the pop that followed a push on the empty queue has returned.
C10_Witness ==
    LET n == Len(hist) IN
        /\ pc[1] = "idle" /\ n >= 2
        /\ hist[n].op = "pop" /\ hist[n - 1].op = "push" /\ hist[n - 1].empty
        /\ hist[n].elt = hist[n - 1].elt

\* ------------------------------------------- claims: the queue, continued

\* s without the element e, the others in their order.
Without(s, e) == SelectSeq(s, LAMBDA x : x # e)

\* h, tl and the links nx, pv describe exactly the queue that holds s.
LinkedAs(s, h, tl, nx, pv) ==
    /\ h = (IF s = <<>> THEN NULL ELSE s[1])
    /\ tl = (IF s = <<>> THEN NULL ELSE s[Len(s)])
    /\ \A i \in 1 .. Len(s) :
           /\ nx[s[i]] = (IF i = Len(s) THEN NULL ELSE s[i + 1])
           /\ pv[s[i]] = (IF i = 1 THEN NULL ELSE s[i - 1])

\* C11: unlink(elt) on an element linked in the queue (at the head, at the
\* tail, in the interior or alone) removes exactly elt: the statements under
\* the two locks leave the other elements in their order, head and tail on the
\* first and last of them (NULL if none), the neighbours' links bypassing elt;
\* no fault is raised, and the call ends with elt marked not linked.
C11_UnlinkRemovesExactlyElt ==
    /\ [](\A t \in Threads :
            pc[t] = "unlink_body" => fault = "none" /\ Reachable(elt[t]))
    /\ [][\A t \in Threads :
            /\ pc[t] = "unlink_body" /\ (pc'[t] # pc[t] \/ fault' # fault)
                  => /\ fault' = "none"
                     /\ pc'[t] = "unlink_unlock"
                     /\ LinkedAs(Without(Chain, elt[t]), head', tail', next', prev')
            /\ pc[t] = "unlink_mark" /\ pc'[t] # pc[t]
                  => /\ pc'[t] = "idle"
                     /\ next'[elt[t]] = NOTLINKED /\ prev'[elt[t]] = NOTLINKED
      ]_vars

\* C11 witness: an element has just been unlinked from the interior of the
\* queue; its own links still name the two neighbours that now bypass it.
C11_Witness ==
    \E t \in Threads :
        /\ pc[t] = "unlink_unlock"
        /\ Valid(prev[elt[t]]) /\ Valid(next[elt[t]])
        /\ Chain = <<prev[elt[t]], next[elt[t]]>>

\* C12: push(elt) of an element that is linked in a queue raises a fatal fault
\* and does not modify head, tail or any element's links.
C12_PushOfLinkedFaults ==
    [][\A t \in Threads : \A e \in Elts :
          PushLinked(t, e) => fault' = "insist" /\ UNCHANGED <<head, tail, prev, next>>
      ]_vars

\* C13: destroy on a queue that still holds an element raises a fatal fault;
\* destroy completes normally only on an empty queue.
C13_DestroyOnlyWhenEmpty ==
    [][\A t \in Threads :
          ISC_QUEUE_DESTROY(t) =>
              IF ISC_QUEUE_EMPTY THEN destroyed' /\ fault' = "none"
              ELSE ~destroyed' /\ fault' = "insist"
      ]_vars

\* The statements at which a thread's next step is LOCK(&(queue).headlock):
\* queue.h:99 in push, queue.h:163 in unlink_if_linked, and the first
\* statement of pop (queue.h:121) and of unlink (queue.h:142).
AtLockHead(t) == pc[t] \in {"idle", "push_lockhead", "unlinkif_lockhead"}

\* C19: no thread is about to take the head lock while it holds the tail
\* lock; the step that gives a thread the head lock finds and leaves it
\* without the tail lock; and a step that gives a thread the tail lock while
\* it has the head lock found the head lock already its own (push on an empty
\* queue has given the tail lock back before it takes the head lock).
C19_HeadLockBeforeTailLock ==
    /\ [](\A t \in Threads : AtLockHead(t) => taillock # t)
    /\ [][\A t \in Threads :
            /\ headlock # t /\ headlock' = t => taillock # t /\ taillock' # t
            /\ taillock # t /\ taillock' = t /\ headlock' = t => headlock = t
         ]_vars

\* C19 witness: a push that found the queue empty holds the head lock and,
\* taken after it, the tail lock, while another push that found the queue
\* empty waits for the head lock without the tail lock.
C19_Witness ==
    \E t, u \in Threads :
        /\ pc[t] = "push_link" /\ headlocked[t]
        /\ headlock = t /\ taillock = t
        /\ pc[u] = "push_lockhead" /\ taillock # u

\* The lock a thread's next statement waits for, if it is held by another.
BlockedOnLock(t) ==
    \/ pc[t] \in {"push_lockhead", "unlinkif_lockhead"} /\ headlock \notin {NOBODY, t}
    \/ /\ pc[t] \in {"push_relock", "pop_locktail", "unlink_locktail",
                     "unlinkif_locktail"}
       /\ taillock \notin {NOBODY, t}

Unfinished == {t \in Threads : pc[t] # "idle"}

BeingMarked(e) ==
    \E u \in Threads :
        elt[u] = e /\ pc[u] \in {"pop_mark", "unlink_mark", "unlinkif_mark"}

\* The elements the queue holds: linked, and not on their way out.
Queued == {e \in Elts : ISC_QLINK_LINKED(e) /\ ~BeingMarked(e)}

ChainSet == {Chain[i] : i \in 1 .. Len(Chain)}

\* head is null exactly when tail is; the chain from head visits each queued
\* element once and ends at tail; head.prev and tail.next are null; each
\* element's prev is its predecessor in the chain.
WellFormed ==
    /\ EndsConsistent
    /\ Len(Chain) <= NElts
    /\ \A i, j \in 1 .. Len(Chain) : Chain[i] = Chain[j] => i = j
    /\ ChainSet = Queued
    /\ head # NULL => Chain[Len(Chain)] = tail
    /\ \A i \in 1 .. Len(Chain) - 1 : prev[Chain[i + 1]] = Chain[i]

\* C21: whenever neither the head lock nor the tail lock is held, the queue
\* is well formed, under push, pop, unlink and unlink_if_linked.
C21_WellFormedWhenUnlocked ==
    headlock = NOBODY /\ taillock = NOBODY => WellFormed

\* A push that took the tail lock on a non-empty queue and holds it.
PushOnTail(t) ==
    /\ pc[t] \in {"push_link", "push_tailnext", "push_settail"}
    /\ ~headlocked[t] /\ taillock = t

\* C22: a push that starts on a queue of more than one element takes the tail
\* lock and goes on without the head lock, a pop that starts on a queue of
\* more than one element (the queue cannot shrink while it holds the head
\* lock) goes on without the tail lock, so neither is ever at a LOCK the
\* other holds; push goes for the head lock exactly when it observes
\* tail == NULL, pop goes for the tail lock exactly when ret->link.next is
\* NULL.
C22_PushPopIndependent ==
    /\ [][\A t \in Threads :
            /\ (\E e \in Elts : PushLockTail(t, e)) =>
                  /\ pc'[t] = "push_lockhead" <=> tail = NULL
                  /\ Len(Chain) > 1 =>
                        pc'[t] = "push_link" /\ taillock' = t /\ headlock' = headlock
            /\ PopLockHead(t) /\ Len(Chain) > 1 =>
                  elt'[t] = head /\ next[head] # NULL /\ taillock' = taillock
            /\ pc[t] = "pop_test" /\ pc'[t] = "pop_test" => Len(Chain') >= Len(Chain)
            /\ PopTest(t) =>
                  /\ pc'[t] = "pop_locktail" <=> elt[t] # NULL /\ next[elt[t]] = NULL
                  /\ Len(Chain) > 1 => pc'[t] = "pop_advance"
         ]_vars
    /\ [](\A t \in Threads :
            /\ PushOnTail(t) => headlock # t
            /\ pc[t] \in {"pop_test", "pop_advance"} => headlock = t /\ taillock # t)

\* C22 witness: on a queue of two elements a pop holds the head lock only and
\* a push holds the tail lock only, each at a statement under its lock.
C22_Witness ==
    \E t, u \in Threads :
        /\ pc[t] = "pop_advance" /\ headlock = t
        /\ PushOnTail(u) /\ pc[u] = "push_link"
        /\ Len(Chain) = 2

\* The two calls made on the one-element queue were a push and a pop, and
\* both have returned.
RaceDone(p, q) ==
    /\ Quiescent /\ Len(hist) = 2
    /\ p \in 1 .. 2 /\ q \in 1 .. 2
    /\ hist[p].op = "push" /\ hist[q].op = "pop"

\* C23: when a pop and a push(new) have run on a queue that held exactly one
\* element old, in whatever interleaving, the pop has returned old (the
\* element no push of the history queued) and the queue holds exactly new:
\* head = tail = new, new.prev = new.next = NULL, and old carries the
\* not-linked marker.  A pop that finds ret still last under the tail lock
\* sets head and tail to NULL, and the push that then finds head NULL installs
\* its element as head; a pop that finds an element behind ret, or never took
\* the tail lock, advances head to it and leaves tail alone.
C23_RaceOnOneElement ==
    /\ [](\A p, q \in 1 .. 2 :
            RaceDone(p, q) =>
                /\ hist[q].elt # NULL /\ hist[q].id = 0
                /\ head = hist[p].elt /\ tail = hist[p].elt
                /\ Chain = <<hist[p].elt>>
                /\ prev[hist[p].elt] = NULL /\ next[hist[p].elt] = NULL
                /\ hist[q].elt # hist[p].elt =>
                      /\ prev[hist[q].elt] = NOTLINKED
                      /\ next[hist[q].elt] = NOTLINKED)
    /\ [][\A t \in Threads :
            /\ PopRetest(t) =>
                  IF next[elt[t]] = NULL
                  THEN head' = NULL /\ tail' = NULL
                  ELSE head' = head /\ tail' = tail
            /\ PopAdvance(t) => head' = next[elt[t]] /\ tail' = tail
            /\ PushSetHead(t) /\ head = NULL => head' = elt[t]
         ]_vars

\* C23 witness: the pop saw old last and waited for the tail lock, the push
\* that held it has appended new and made it the tail, and the pop, now under
\* the tail lock, is about to find old no longer last.
C23_Witness ==
    \E t \in Threads :
        /\ pc[t] = "pop_retest" /\ taillock = t /\ headlock = t
        /\ head = elt[t] /\ tail # elt[t] /\ next[elt[t]] = tail
        /\ Len(hist) = 1 /\ hist[1].op = "push" /\ hist[1].elt = tail

\* (void *)(-1) in both links of e.
Marked(e) == prev[e] = NOTLINKED /\ next[e] = NOTLINKED

\* The statements of pop, unlink and unlink_if_linked.
RemoverPCs ==
    {"pop_test", "pop_locktail", "pop_retest", "pop_advance", "pop_unlock",
     "pop_mark", "unlink_locktail", "unlink_body", "unlink_unlock",
     "unlink_mark", "unlinkif_lockhead", "unlinkif_locktail", "unlinkif_body",
     "unlinkif_unlock", "unlinkif_mark"}

\* C24: whenever no operation of the queue is in progress an element carries
\* the not-linked marker exactly when it is not reachable from head (and then
\* in both links); and when a pop that found an element, an unlink or an
\* unlink_if_linked returns, its element carries the marker in prev and next.
C24_MarkerAgreesWithMembership ==
    /\ [](Quiescent =>
            \A e \in Elts :
                IF Reachable(e)
                THEN prev[e] # NOTLINKED /\ next[e] # NOTLINKED
                ELSE Marked(e))
    /\ [][\A t \in Threads :
            pc[t] \in RemoverPCs /\ pc'[t] = "idle" /\ elt[t] # NULL =>
                prev'[elt[t]] = NOTLINKED /\ next'[elt[t]] = NOTLINKED
         ]_vars

\* ------------------------------------------- claims: the reference counter

\* C4: after init the reference count is >= 0 in every reachable state, for
\* every interleaving of increment, increment0 and decrement calls by the
\* threads, the state in which a decrement on a zero count raises its fault
\* included.
C4_CountNeverNegative == \A v \in ThreadedVariants : refs[v] >= 0

\* C5: increment0 on a count of 0 succeeds, sets the count to 1 and reports 1;
\* increment on a count of 0 raises a fault; for a prior value p > 0 both
\* increment and increment0 set the count to p + 1 and report p + 1.
C5_IncrementFromZeroAndAbove ==
    \A v \in Variants :
        LET p == rlast.prior[v] IN
        /\ rlast.op = "increment0" /\ p >= 0 =>
               ~rlast.fault[v] /\ refs[v] = p + 1 /\ rlast.report[v] = <<ToUnsigned(p + 1)>>
        /\ rlast.op = "increment" /\ p = 0 => rlast.fault[v]
        /\ rlast.op = "increment" /\ p > 0 =>
               ~rlast.fault[v] /\ refs[v] = p + 1 /\ rlast.report[v] = <<ToUnsigned(p + 1)>>

\* An increment0 has just been made on a count of 0 and reported 1.
C5_Witness ==
    /\ rlast.op = "increment0"
    /\ \A v \in Variants :
           rlast.prior[v] = 0 /\ refs[v] = 1 /\ rlast.report[v] = <<ToUnsigned(1)>>

\* C6: decrement on a prior value p > 0 sets the count to p - 1 and reports
\* p - 1; decrement on a count of 0 raises a fault instead of returning.
C6_DecrementAboveZeroAndAtZero ==
    \A v \in Variants :
        LET p == rlast.prior[v] IN
        /\ rlast.op = "decrement" /\ p > 0 =>
               ~rlast.fault[v] /\ refs[v] = p - 1 /\ rlast.report[v] = <<ToUnsigned(p - 1)>>
        /\ rlast.op = "decrement" /\ p = 0 =>
               rlast.fault[v] /\ rlast.report[v] = <<>>

\* A decrement has just been made on a count of 0 and raised its fault.
C6_Witness ==
    /\ rlast.op = "decrement"
    /\ \A v \in Variants : rlast.prior[v] = 0 /\ rlast.fault[v]

\* C7: destroy succeeds if and only if the count is 0 at the time of the call:
\* right after a decrement that reported 0 it succeeds, and on a count > 0 it
\* raises a fault.
C7_DestroyOnlyAtZero ==
    \A v \in Variants :
        rlast.op = "destroy" =>
            /\ ~rlast.fault[v] <=> rlast.prior[v] = 0
            /\ rlast.prevOp = "decrement" /\ rlast.prevReport[v] = <<ToUnsigned(0)>> =>
                   ~rlast.fault[v]
            /\ rlast.prior[v] > 0 => rlast.fault[v]

\* A destroy has just succeeded right after a decrement that reported 0.
C7_Witness ==
    /\ rlast.op = "destroy" /\ rlast.prevOp = "decrement"
    /\ \A v \in Variants : rlast.prevReport[v] = <<ToUnsigned(0)>> /\ ~rlast.fault[v]

\* C8: run side by side on the same calls, the atomic variant and the mutex
\* variant report the same values and the same fault or success at every
\* step, and hold the same count after every step, the step that raises a
\* fault included.
C8_VariantsEquivalent ==
    /\ rlast.report["atomic"] = rlast.report["mutex"]
    /\ rlast.fault["atomic"] = rlast.fault["mutex"]
    /\ refs["atomic"] = refs["mutex"]

\* C25: no update of the counter is lost.  When every concurrent call has
\* returned and none of them failed its REQUIRE, the counter that was
\* initialised to n holds n + i - d after i increments (increment0 included)
\* and d decrements; the changes took effect in one order, and every decrement
\* reported the count that this order gives it.  A decrement reports 0 once for
\* every time the count reaches 0, and increment0 can take the count away from
\* 0 again: when the count ends at 0, the decrements that reported 0 are as
\* many as the increment0 calls that found the count at 0, plus one if n > 0.
\* In particular exactly one decrement reported 0 when n > 0 and no
\* increment0 found the count at 0.
Initial(v) == rlast.prior[v]

Changes(v) == 1 .. Len(rlog[v])

Increments(v) == {k \in Changes(v) : rlog[v][k].op # "decrement"}

Decrements(v) == {k \in Changes(v) : rlog[v][k].op = "decrement"}

\* The count after the first k changes, had they been made one after another.
CountAfter(v, k) ==
    Initial(v) + Cardinality({j \in Increments(v) : j <= k})
               - Cardinality({j \in Decrements(v) : j <= k})

\* Every call has returned, and none failed its REQUIRE.
AllReturned ==
    /\ rfault = "none"
    /\ \A t \in Threads : rpc[t] = "idle"
    /\ \A v \in ThreadedVariants : \A k \in Changes(v) : ~rlog[v][k].fault

ReportedZero(v) == {k \in Decrements(v) : rlog[v][k].report = <<ToUnsigned(0)>>}

\* The increment0 calls that found the count at 0.
FoundZero(v) ==
    {k \in Increments(v) : rlog[v][k].op = "increment0"
                           /\ rlog[v][k].report = <<ToUnsigned(1)>>}

NothingLost(v) ==
    /\ refs[v] = Initial(v) + Cardinality(Increments(v)) - Cardinality(Decrements(v))
    /\ \A k \in Decrements(v) : rlog[v][k].report = <<ToUnsigned(CountAfter(v, k))>>

C25_NoLostUpdates ==
    AllReturned =>
        \A v \in ThreadedVariants :
            /\ NothingLost(v)
            /\ refs[v] = 0 =>
                   /\ Cardinality(ReportedZero(v)) =
                          Cardinality(FoundZero(v)) + (IF Initial(v) > 0 THEN 1 ELSE 0)
                   /\ Initial(v) > 0 /\ FoundZero(v) = {} =>
                          Cardinality(ReportedZero(v)) = 1

\* The claim as it is written: whenever decrements were made and the count
\* ends at 0, exactly one decrement reported 0.
C25_ExactlyOneReportsZero ==
    AllReturned =>
        \A v \in ThreadedVariants :
            /\ NothingLost(v)
            /\ refs[v] = 0 /\ Decrements(v) # {} => Cardinality(ReportedZero(v)) = 1

\* All calls have returned; a counter that started above 0 ended at 0 after
\* an increment0 that found it at 0 and two decrements that reported 0.
C25_Witness ==
    /\ AllReturned
    /\ \E v \in ThreadedVariants :
           /\ refs[v] = 0 /\ Initial(v) > 0
           /\ Cardinality(FoundZero(v)) = 1
           /\ Cardinality(ReportedZero(v)) = 2

\* --------------------------------------- claims: the reader-writer lock

WriteHolders == {t \in Lockers : held[t] = "write"}

ReadHolders == {t \in Lockers : held[t] = "read"}

\* At most one thread holds the lock for writing, and then none for reading.
WriterExcludes ==
    \A t \in WriteHolders : \A u \in Lockers \ {t} : held[u] = "none"

\* The threads whose READER_INCR is in cnt_and_flag: the readers that hold
\* the lock, the readers that made their atomic claim and are not admitted
\* yet (or are about to cancel it), and a writer in the middle of a downgrade.
Counted ==
    {t \in Lockers :
        \/ held[t] = "read"
        \/ lpc[t] \in {"rd_test", "rd_wait", "rd_waiting", "rd_grant",
                       "tr_cancel", "dg_clear"}}

LockState ==
    <<cnt_and_flag, write_requests, write_completions, write_granted,
      readers_waiting, asleep, held>>

\* C15: a tryupgrade succeeds only when its caller is the only holder of the
\* read lock, and the caller then holds the write lock (alone) and the call
\* returns success; when another thread holds the read lock the call returns
\* failure and leaves the reader count, the writer flag, write_requests,
\* write_completions and the waiter counts as they were, the caller still
\* holding its read lock.
C15_TryUpgradeOnlyForSoleReader ==
    /\ [][\A t \in Lockers :
            TryUpgrade(t) =>
                /\ held'[t] = "write" =>
                      /\ ReadHolders = {t}
                      /\ WriteHolders' = {t} /\ ReadHolders' = {}
                      /\ WriterActive(cnt_and_flag') /\ Readers(cnt_and_flag') = 0
                /\ ReadHolders # {t} =>
                      /\ lresult'[t] = "busy" /\ lpc'[t] = "idle"
                      /\ LockState' = LockState
                      /\ held'[t] = "read"
         ]_vars
    /\ [][\A t \in Lockers :
            UpgradeJump(t) =>
                /\ held'[t] = "write" /\ lresult'[t] = "success"
                /\ cnt_and_flag' = cnt_and_flag
         ]_vars

\* C15 witness: a tryupgrade has returned failure to a thread that holds the
\* read lock together with another thread.
C15_Witness ==
    \E t, u \in Lockers :
        /\ t # u
        /\ held[t] = "read" /\ held[u] = "read"
        /\ lpc[t] = "idle" /\ lresult[t] = "busy"
        /\ Readers(cnt_and_flag) = 2 /\ ~WriterActive(cnt_and_flag)

\* A thread inside isc_rwlock_downgrade, after its first atomic step.
Downgrading(t) == lpc[t] \in {"dg_clear", "dg_complete", "dg_wake"}

\* A thread that has the writer-active bit: the write holder, or a writer
\* between setting the bit and returning.
HasWriterBit(t) == held[t] = "write" \/ lpc[t] \in {"wr_grant", "tw_jump"}

\* C16: in no state of a downgrade is the lock held by nobody (the caller
\* holds it for writing or for reading and cnt_and_flag is not 0), and no
\* other thread has or gets the write lock during the downgrade or while a
\* thread holds the lock for reading afterwards.
C16_DowngradeNeverUnlocked ==
    /\ \A t \in Lockers :
          Downgrading(t) =>
              /\ held[t] \in {"write", "read"}
              /\ cnt_and_flag # 0
              /\ \A u \in Lockers \ {t} : ~HasWriterBit(u)
    /\ \A t \in ReadHolders :
          /\ ~WriterActive(cnt_and_flag)
          /\ \A u \in Lockers : ~HasWriterBit(u)

\* C16 witness: a thread in the middle of a downgrade holds the lock for
\* reading while a writer with a ticket waits for the lock.
C16_Witness ==
    \E t, u \in Lockers :
        /\ lpc[t] = "dg_complete" /\ held[t] = "read"
        /\ lpc[u] \in {"wr_turn", "wr_claim", "wr_drain", "wr_draining"}
        /\ cnt_and_flag = READER_INCR

\* The writer has its ticket and has not returned from lock(write).
WriterWaiting ==
    lpc[QuotaWriter] \in {"wr_turn", "wr_claim", "wr_drain", "wr_draining", "wr_grant"}

\* A reader that arrived while the writer was queued and sleeps on readable.
QueuedBehind(r) == lpc[r] = "rd_queued" /\ asleep[r] = "readable"

LockQuiet == \A t \in Lockers : lpc[t] = "idle"

\* The lock as one reader alone holds it: one reader counted, the writer bit
\* clear, no writer queued or in progress, nobody waiting.
HeldBySoleReader(t) ==
    /\ ReadHolders = {t} /\ WriteHolders = {}
    /\ cnt_and_flag = READER_INCR
    /\ write_requests = write_completions
    /\ readers_waiting = 0
    /\ \A u \in Lockers : asleep[u] = "none"

\* The steps of a successful tryupgrade and of a downgrade.
UpgradeStep(t) == (TryUpgrade(t) /\ held'[t] = "write") \/ UpgradeJump(t)

DowngradeStep(t) ==
    \/ DowngradeEnter(t) \/ DowngradeClear(t) \/ DowngradeComplete(t)
    \/ DowngradeWake(t)

\* C18: whenever no call is in progress and one thread alone holds the lock
\* for reading, after a tryupgrade and a downgrade as well as before them,
\* the lock is in the one state "held by a sole reader": reader count 1, that
\* thread the only holder, the writer-active flag clear, no writer counted as
\* pending; the round trip leaves write_requests and write_granted as they
\* were; and once the thread has called unlock(read) the lock is free.
C18_UpgradeDowngradeRoundTrip ==
    /\ [](\A t \in Lockers :
            LockQuiet /\ ReadHolders = {t} /\ WriteHolders = {}
                => HeldBySoleReader(t))
    /\ [][\A t \in Lockers :
            UpgradeStep(t) \/ DowngradeStep(t) =>
                /\ write_requests' = write_requests
                /\ write_granted' = write_granted
         ]_vars
    /\ [](LockQuiet /\ ReadHolders = {} /\ WriteHolders = {}
            => cnt_and_flag = 0 /\ write_requests = write_completions)

\* C18 witness: a thread that took the read lock alone, upgraded it and is at
\* the last step of its downgrade (no ticket was ever taken and no write lock
\* granted otherwise, the other threads never called): the lock is held by a
\* sole reader again.
C18_Witness ==
    \E t \in Lockers :
        /\ lpc[t] = "dg_wake" /\ held[t] = "read"
        /\ write_requests = 0 /\ write_granted = 0 /\ write_completions = 0
        /\ cnt_and_flag = READER_INCR
        /\ \A u \in Lockers \ {t} : lpc[u] = "idle" /\ lresult[u] = "none"

\* C26: writers enter in the order of their tickets.  lock(write) takes its
\* ticket with one increment of write_requests; the writer goes on to claim
\* the lock only when it has seen write_completions equal to its ticket minus
\* one, and it sets the writer-active bit only on a cnt_and_flag of 0 (no
\* reader counted, no writer active) and when no writer with a smaller ticket
\* still waits.  At the moment the bit is set write_completions is the ticket
\* minus one, or less by one for every trylock(write) or tryupgrade that
\* jumped the queue after the writer's turn had come and has released the bit
\* but not yet counted its completion.  write_completions never exceeds
\* write_requests.
\*
\* The ticket is the value of write_requests after the increment.
Ticket(t) == ticket[t] + 1

\* In lock(write), the lock not granted yet.
WaitsForGrant(t) == lpc[t] \in {"wr_turn", "wr_claim", "wr_drain", "wr_draining"}

TakesTicket(t) == lpc[t] = "idle" /\ lpc'[t] = "wr_turn"

TurnComes(t) == lpc[t] = "wr_turn" /\ lpc'[t] = "wr_claim"

\* The compare-and-swap of lock(write) succeeds.
SetsBit(t) == lpc[t] = "wr_claim" /\ lpc'[t] = "wr_grant"

TicketIsIncrement(t) ==
    TakesTicket(t) =>
        write_requests' = write_requests + 1 /\ ticket'[t] + 1 = write_requests'

SmallestTicket(t) ==
    \A u \in Lockers \ {t} : WaitsForGrant(u) => Ticket(t) < Ticket(u)

CompletionsBounded == write_completions <= write_requests

====
